---- MODULE Spec2Model ----
(***************************************************************************)
(* Model of the conversational data-orchestration engine of finAIgent      *)
(* (the unified Go backend listed in src/README.md): the chat handler, its *)
(* routing decision, target resolution, provider fallback chains, the      *)
(* per-session store and the progress tracker.                             *)
(*                                                                         *)
(* Text is modelled by what the regular expressions of the code see in it: *)
(* a message is a sequence of tokens of a small vocabulary, and every      *)
(* classifier is the set of tokens its regular expression matches.         *)
(* Symbols and names are tuples of strings: <<"300750","SZ">> is the text  *)
(* 300750.SZ, <<"TSLA">> the text TSLA.                                    *)
(***************************************************************************)
EXTENDS Integers, Sequences, FiniteSets, TLC

\* ------------------------------------------------------------------ bounds
MaxTurns == 1

MaxDialogTurns == 2

MaxWords == 3

\* The longest metric list of a comparison plan.
MaxMetrics == 3

\* The last clock reading of the progress runs, in milliseconds.
MaxClock == 2000

\* The longest text of the route decision runs, in words.
MaxRouteWords == 2

MaxRequests == 2

MaxStored == 2

MaxAsked == 2

\* The rows of a provider payload.
MaxRows == 3

\* The fiscal years a metric of the company-facts service spans.
MaxYears == 5

\* The fiscal years two metrics of the company-facts service span.
MaxRatioYears == 3

\* ------------------------------------------------------- small utilities
Range(f) == {f[i] : i \in DOMAIN f}

Prefix(s, n) == IF Len(s) <= n THEN s ELSE SubSeq(s, 1, n)

\* ------------------------------------------------------------ vocabulary
\* Intent tokens (pinyin of the phrase the user types):
\*   jixu            "ji xu"            (continue)       memory word
\*   tamen           "ta men"           (them)           back-reference word
\*   hangye_longtou  "hang ye long tou" (industry leader) domain + quantifier
\*   he              "he"               (and)            comparison word
\*   duibi           "dui bi"           (compare)        comparison word
\*   yingshou        "ying shou"        (revenue)        finance word
\*   agu_paihang     "A gu pai hang"    (A-share ranking) stock + ranking word
\*   bankuai_zoushi  "ban kuai zou shi" (sector trend)   sector + analysis word
\*   nihao           "ni hao"           (hello)          matches no pattern
\* Target tokens: TSLA, tengxun (alias of 0700.HK), 300750.SZ, and the
\* renderings joinTargetHint produces for remembered targets.
\* The requests of the exhaustive single-turn runs: one message for each way
\* the classifiers and the resolver split the input (small talk, a finance
\* word with no target, with a US ticker, with an alias of a Hong Kong
\* listing, with a domestic code, a ranking question, a sector question, a
\* broad category, a comparison word with one target, comparisons of two
\* targets), and longer ones up to MaxWords.
MessagePool ==
  {<<"nihao">>, <<"yingshou">>, <<"agu_paihang">>, <<"bankuai_zoushi">>, <<"hangye_longtou">>,
   <<"TSLA", "yingshou">>, <<"tengxun", "yingshou">>, <<"300750.SZ", "yingshou">>,
   <<"he", "TSLA">>, <<"TSLA", "he", "tengxun">>, <<"300750.SZ", "he", "TSLA">>,
   <<"duibi", "TSLA", "he", "300750.SZ">>, <<"TSLA", "tengxun", "300750.SZ", "yingshou">>}

UserMessages == {m \in MessagePool : Len(m) <= MaxWords}

\* The requests of the multi-turn runs.  A conversation opens with a turn that
\* names one target or two, and goes on with follow-ups: a broad category
\* after a continuation word, a broad category after a back-reference, a
\* finance word after a back-reference.
DialogOpenings == {m \in {<<"TSLA", "yingshou">>, <<"TSLA", "he", "tengxun">>} : Len(m) <= MaxWords}

DialogPool ==
  {<<"jixu", "hangye_longtou">>, <<"tamen", "hangye_longtou">>, <<"tamen", "yingshou">>,
   <<"jixu", "tamen", "hangye_longtou", "yingshou">>}

DialogMessages == {m \in DialogPool : Len(m) <= MaxWords}

Has(message, W) == \E i \in 1..Len(message) : message[i] \in W

\* ------------------------------------------------- regular expressions
MemoryWords == {"jixu"}
ReferenceWords == {"tamen"}
DomainWords == {"hangye_longtou", "bankuai_zoushi"}
QuantifierWords == {"hangye_longtou"}
CompareWords == {"he", "duibi"}
CompareFinanceWords == {"yingshou"}
TrendWords == {}
FinancialWords == {"yingshou"}
StockWords == {"agu_paihang"}
RankWords == {"agu_paihang"}
BoardWords == {"agu_paihang", "bankuai_zoushi", "hangye_longtou"}
BoardAnalysisWords == {"agu_paihang", "bankuai_zoushi"}
StrongWords == {"yingshou", "agu_paihang", "bankuai_zoushi", "duibi"}
CNHintWords == {"agu_paihang"}
USHintWords == {}

isFinancialQuestion(message) == Has(message, FinancialWords)

hasCompareHint(message) == Has(message, CompareWords)

isCompareQuestion(message) ==
  /\ Has(message, CompareWords)
  /\ (Has(message, CompareFinanceWords) \/ Has(message, TrendWords))

isStockRankQuestion(message) ==
  /\ Has(message, StockWords)
  /\ Has(message, RankWords)

isBoardAnalysisQuestion(message) ==
  /\ ~isStockRankQuestion(message)
  /\ Has(message, BoardWords)
  /\ Has(message, BoardAnalysisWords)

isStrongDataIntent(message) ==
  \/ isStockRankQuestion(message)
  \/ isBoardAnalysisQuestion(message)
  \/ isCompareQuestion(message)
  \/ isFinancialQuestion(message)
  \/ Has(message, StrongWords)

shouldUseMemoryV2(message) == Has(message, MemoryWords)

isBroadCategoryQuery(message) ==
  /\ message # <<>>
  /\ Has(message, DomainWords)
  /\ Has(message, QuantifierWords)

shouldCarryTargetsV2(message) ==
  IF shouldUseMemoryV2(message) THEN TRUE
  ELSE IF isBroadCategoryQuery(message) THEN FALSE
  ELSE Has(message, ReferenceWords)

\* -------------------------------------------------------------- targets
\* The company directory (cn_stocks.json) as loadCNStocks returns it: a
\* sequence of [Code, Name].  The data file is not part of the sources; the
\* model runs with the directory the code falls back to when it is absent.
Directory == <<>>

StopTickers == {<<"VS">>, <<"AND">>, <<"OR">>, <<"THE">>, <<"TOP">>, <<"A">>, <<"B">>}

isStopTickerToken(s) == s \in StopTickers

Target(name, symbol, market) == [Name |-> name, Symbol |-> symbol, Market |-> market]

\* The text of each target token as the extraction expressions see it:
\* cn = six digits + exchange suffix, hk = four digits + .HK, d6 = six
\* digits, ticker = a run of 2..8 capital letters, alias = an alias key.
TokenCN(w) == IF w = "300750.SZ" THEN <<[k |-> "cn", v |-> <<"300750", "SZ">>]>> ELSE <<>>

TokenHK(w) == IF w = "0700.HK" THEN <<[k |-> "hk", v |-> <<"0700", "HK">>]>> ELSE <<>>

TokenD6(w) == IF w = "300750.SZ" THEN <<[k |-> "d6", v |-> <<"300750">>]>> ELSE <<>>

TokenTicker(w) ==
  CASE w = "300750.SZ" -> <<[k |-> "ticker", v |-> <<"SZ">>]>>
    [] w = "0700.HK" -> <<[k |-> "ticker", v |-> <<"HK">>]>>
    [] w \in {"TSLA", "AAPL", "SZ", "HK"} -> <<[k |-> "ticker", v |-> <<w>>]>>
    [] OTHER -> <<>>

TokenAlias(w) ==
  CASE w = "tengxun" -> <<[k |-> "alias", v |-> <<"tengxun">>]>>
    [] w = "pingguo" -> <<[k |-> "alias", v |-> <<"pingguo">>]>>
    [] w = "texila" -> <<[k |-> "alias", v |-> <<"texila">>]>>
    [] w = "tengxun_konggu" ->
         <<[k |-> "alias", v |-> <<"tengxun">>], [k |-> "alias", v |-> <<"tengxun_konggu">>]>>
    [] OTHER -> <<>>

RECURSIVE FlatMap(_, _, _)
FlatMap(Op(_), s, i) ==
  IF i > Len(s) THEN <<>> ELSE Op(s[i]) \o FlatMap(Op, s, i + 1)

RECURSIVE UniqueBy(_, _, _, _)
\* Keeps the first element of s for every key, in order (the seen-map idiom).
UniqueBy(Key(_), s, i, seen) ==
  IF i > Len(s) THEN <<>>
  ELSE IF Key(s[i]) \in seen THEN UniqueBy(Key, s, i + 1, seen)
  ELSE <<s[i]>> \o UniqueBy(Key, s, i + 1, seen \cup {Key(s[i])})

CandidateKey(c) == c.v

extractSymbolCandidates(message) ==
  UniqueBy(CandidateKey,
           FlatMap(TokenCN, message, 1) \o FlatMap(TokenHK, message, 1)
             \o FlatMap(TokenD6, message, 1)
             \o SelectSeq(FlatMap(TokenTicker, message, 1), LAMBDA c : ~isStopTickerToken(c.v)),
           1, {})

hasExplicitTargets(message) ==
  \/ Len(extractSymbolCandidates(message)) > 0
  \/ Len(FlatMap(TokenAlias, message, 1)) > 0

defaultAliasTargets(alias) ==
  CASE alias \in {<<"tengxun">>, <<"tengxun_konggu">>} ->
         <<Target(<<"tengxun_konggu">>, <<"0700", "HK">>, "US")>>
    [] alias = <<"pingguo">> -> <<Target(<<"AAPL">>, <<"AAPL">>, "US")>>
    [] alias = <<"texila">> -> <<Target(<<"TSLA">>, <<"TSLA">>, "US")>>
    [] OTHER -> <<>>

lookupCNNameByCode(code) ==
  IF \E i \in 1..Len(Directory) : Directory[i].Code = code
  THEN Directory[CHOOSE i \in 1..Len(Directory) : Directory[i].Code = code].Name
  ELSE <<>>

enrichTargetName(t) ==
  LET looked == IF (t.Name = <<>> \/ t.Name = t.Symbol) /\ t.Market = "CN"
                THEN lookupCNNameByCode(t.Symbol) ELSE <<>>
      name == IF looked # <<>> THEN looked ELSE t.Name
  IN [t EXCEPT !.Name = IF name = <<>> THEN t.Symbol ELSE name]

enrichTargetNames(items) == [i \in 1..Len(items) |-> enrichTargetName(items[i])]

\* resolveSingleTarget returns (target, ok); the model returns the sequence
\* holding the target when ok, the empty sequence otherwise.
resolveSingleTarget(raw) ==
  CASE raw.k = "alias" -> defaultAliasTargets(raw.v)
    [] raw.k = "hk" -> <<Target(raw.v, raw.v, "US")>>
    [] raw.k = "cn" -> <<Target(raw.v, raw.v, "CN")>>
    [] raw.k = "d6" ->
         IF raw.v[1] \in {"600519"}
         THEN <<Target(raw.v, <<raw.v[1], "SH">>, "CN")>>
         ELSE <<Target(raw.v, <<raw.v[1], "SZ">>, "CN")>>
    [] raw.k = "ticker" ->
         IF isStopTickerToken(raw.v) THEN <<>> ELSE <<Target(raw.v, raw.v, "US")>>
    [] OTHER -> <<>>

SymbolKey(t) == t.Symbol

MarketSymbolKey(t) == <<t.Market, t.Symbol>>

RECURSIVE supplementFromDirectory(_, _, _)
\* The supplemental pass of resolveCompareTargets: directory names literally
\* contained in the message, until two targets are held.
supplementFromDirectory(message, out, i) ==
  IF i > Len(Directory) \/ Len(out) >= 2 THEN out
  ELSE IF Has(message, {Directory[i].Name}) /\ Directory[i].Code \notin {out[j].Symbol : j \in 1..Len(out)}
       THEN supplementFromDirectory(message,
              Append(out, enrichTargetName(Target(<<Directory[i].Name>>, Directory[i].Code, "CN"))), i + 1)
       ELSE supplementFromDirectory(message, out, i + 1)

\* The keys of the alias map, and the orders in which a range loop over the
\* map can visit them: Go leaves the iteration order of a map unspecified.
AliasKeys == {<<"tengxun">>, <<"tengxun_konggu">>, <<"pingguo">>, <<"texila">>}

AliasWalks ==
  {w \in [1..Cardinality(AliasKeys) -> AliasKeys] :
     \A i, j \in DOMAIN w : i # j => w[i] # w[j]}

\* Lines 2464-2469: the aliases contained in the message, in the order of the
\* walk over the alias map.
aliasCandidates(message, walk) ==
  LET contained == {c.v : c \in Range(FlatMap(TokenAlias, message, 1))}
      found == SelectSeq(walk, LAMBDA a : a \in contained)
  IN [i \in 1..Len(found) |-> [k |-> "alias", v |-> found[i]]]

\* resolveCompareTargets under one walk of the alias map.
resolveCompareTargetsWalk(message, planTargets, walk) ==
  supplementFromDirectory(
    message,
    UniqueBy(SymbolKey,
             enrichTargetNames(FlatMap(resolveSingleTarget,
                                       planTargets \o extractSymbolCandidates(message)
                                         \o aliasCandidates(message, walk),
                                       1)),
             1, {}),
    1)

\* Where the aliases of a message all name one company, the order of the
\* walk does not show in the result: the turns of the server take the walk
\* in the order of the text.
\* The candidates (plan targets, symbols of the text, aliases) are resolved
\* and deduplicated in order; the supplemental pass runs while fewer than two
\* targets are held.
resolveCompareTargets(message, planTargets) ==
  supplementFromDirectory(
    message,
    UniqueBy(SymbolKey,
             enrichTargetNames(FlatMap(resolveSingleTarget,
                                       planTargets \o extractSymbolCandidates(message)
                                         \o FlatMap(TokenAlias, message, 1),
                                       1)),
             1, {}),
    1)

isCNCode(symbol) == Len(symbol) = 2 /\ symbol[2] \in {"SZ", "SH"}

isUSCode(symbol) == Len(symbol) = 1 \/ (Len(symbol) = 2 /\ symbol[2] = "HK")

applyMarketConstraintByQuestion(message, targets) ==
  LET hasCNHint == Has(message, CNHintWords)
      hasUSHint == Has(message, USHintWords)
      cn == SelectSeq(targets, LAMBDA t : isCNCode(t.Symbol))
      us == SelectSeq(targets, LAMBDA t : isUSCode(t.Symbol))
  IN IF Len(targets) = 0 \/ message = <<>> THEN targets
     ELSE IF hasCNHint /\ ~hasUSHint /\ Len(cn) > 0 THEN cn
     ELSE IF hasUSHint /\ ~hasCNHint /\ Len(us) > 0 THEN us
     ELSE targets

mergeCompareTargetLists(lists) ==
  LET all == FlatMap(LAMBDA l : l, lists, 1)
      kept == SelectSeq(all, LAMBDA t : t.Symbol # <<>>)
      named == [i \in 1..Len(kept) |->
                  [kept[i] EXCEPT !.Name = IF kept[i].Name = <<>> THEN kept[i].Symbol ELSE kept[i].Name]]
  IN UniqueBy(MarketSymbolKey, named, 1, {})

\* resolveCNStockFromQuestion: the first well-formed domestic code of the
\* text, else the first six-digit run, else the best directory entry.
resolveCNStockFromQuestion(message) ==
  LET cn == FlatMap(TokenCN, message, 1)
      d6 == FlatMap(TokenD6, message, 1)
  IN IF Len(cn) > 0 THEN <<Target(cn[1].v, cn[1].v, "CN")>>
     ELSE IF Len(d6) > 0 THEN resolveSingleTarget(d6[1])
     ELSE <<>>

resolveFinancialTarget(message) ==
  LET cn == resolveCNStockFromQuestion(message)
      targets == resolveCompareTargets(message, <<>>)
  IN IF Len(cn) > 0 THEN <<enrichTargetName(cn[1])>>
     ELSE IF Len(targets) = 0 THEN <<>>
     ELSE <<enrichTargetName(targets[1])>>

\* resolveFinancialTarget under one walk of the alias map.
resolveFinancialTargetWalk(message, walk) ==
  LET cn == resolveCNStockFromQuestion(message)
      targets == resolveCompareTargetsWalk(message, <<>>, walk)
  IN IF Len(cn) > 0 THEN <<enrichTargetName(cn[1])>>
     ELSE IF Len(targets) = 0 THEN <<>>
     ELSE <<enrichTargetName(targets[1])>>

\* The text joinTargetHint renders for one remembered target.
HintTokens(t) ==
  CASE t.Symbol = <<"0700", "HK">> ->
         IF t.Name = t.Symbol THEN <<"0700.HK">> ELSE <<"tengxun_konggu", "0700.HK">>
    [] t.Symbol = <<"300750", "SZ">> -> <<"300750.SZ">>
    [] OTHER -> <<t.Symbol[1]>>

joinTargetHint(targets) ==
  LET parts == Prefix(targets, 3)
      texts == FlatMap(HintTokens, parts, 1)
  IN IF Len(parts) >= 2 THEN texts \o <<"he">> ELSE texts

targetsFromResults(results) == [i \in 1..Len(results) |-> results[i].Target]

normalizeEODHDSymbol(symbol) ==
  IF Len(symbol) = 2 /\ symbol[2] \in {"US", "HK"} THEN symbol
  ELSE IF Len(symbol) = 1 /\ symbol[1] \in {"0700", "9988", "9999"} THEN <<symbol[1], "HK">>
  ELSE <<symbol[1], "US">>

\* selectAkshareFallbackCode returns (code, ok): the sequence holding the
\* code when ok.
selectAkshareFallbackCode(target) ==
  LET symbol == target.Symbol IN
  IF symbol = <<>> THEN <<>>
  ELSE IF Len(symbol) = 2 /\ symbol[2] = "US" /\ ~isStopTickerToken(<<symbol[1]>>) THEN <<<<symbol[1]>>>>
  ELSE IF Len(symbol) = 1 /\ symbol[1] \notin {"0700", "9988", "9999"} /\ ~isStopTickerToken(symbol)
       THEN <<symbol>>
  ELSE IF symbol \in {<<"0700", "HK">>, <<"0700">>} \/ target.Name = <<"tengxun_konggu">>
       THEN <<<<"00700">>>>
  ELSE IF symbol \in {<<"9988", "HK">>, <<"9988">>} THEN <<<<"BABA">>>>
  ELSE IF symbol \in {<<"9999", "HK">>, <<"9999">>} THEN <<<<"NTES">>>>
  ELSE <<>>

\* ---------------------------------------------------------------- store
Sessions == {"s1", "s2"}

Put(m, k, v) == [x \in (DOMAIN m) \cup {k} |-> IF x = k THEN v ELSE m[x]]

Get(m, k, zero) == IF k \in DOMAIN m THEN m[k] ELSE zero

EmptyMap == [x \in {} |-> <<>>]

ZeroProgress == [Stage |-> "", Done |-> FALSE, Progress |-> 0, UpdatedAt |-> ""]

\* strings.TrimSpace and strings.ToLower over the stage strings of the model.
trimSpace(stage) == IF stage = " LLM " THEN "LLM" ELSE stage

toLower(stage) == IF stage = "LLM" THEN "llm" ELSE stage

\* The switch of progressByStage.
stagePercent(stage) ==
  CASE stage = "received" -> 5
    [] stage = "memory" -> 12
    [] stage = "route" -> 20
    [] stage = "compare_plan" -> 30
    [] stage = "compare_query" -> 45
    [] stage = "compare_render" -> 62
    [] stage = "stock_rank" -> 55
    [] stage = "board" -> 55
    [] stage = "finance_target" -> 35
    [] stage = "finance_query" -> 58
    [] stage = "finance_summary" -> 72
    [] stage = "deep_plan" -> 28
    [] stage = "deep_query" -> 62
    [] stage = "deep_summary" -> 86
    [] stage = "llm_summary" -> 82
    [] stage = "llm" -> 88
    [] stage = "done" -> 100
    [] stage = "idle" -> 100
    [] OTHER -> 15

\* progressByStage reading the table whatever done says.
progressByStage_tableOnly(stage, done) == stagePercent(toLower(trimSpace(stage)))

progressByStage(stage, done) ==
  IF done THEN 100 ELSE stagePercent(toLower(trimSpace(stage)))

ensureSession(S, sessionID) == IF sessionID \in DOMAIN S THEN S ELSE Put(S, sessionID, <<>>)

appendMessage(S, sessionID, role, content) ==
  Put(S, sessionID, Append(Get(S, sessionID, <<>>), [Role |-> role, Content |-> content]))

appendReportItem(R, sessionID, item) == Put(R, sessionID, Append(Get(R, sessionID, <<>>), item))

getMessages(S, sessionID) == Get(S, sessionID, <<>>)

getReportItems(R, sessionID) == Get(R, sessionID, <<>>)

setChatProgress(P, sessionID, stage, done) ==
  Put(P, sessionID, [Stage |-> trimSpace(stage), Done |-> done,
                     Progress |-> progressByStage(stage, done), UpdatedAt |-> "set"])

getChatProgress(P, sessionID) == Get(P, sessionID, ZeroProgress)

\* Times are milliseconds; a time field of the record is <<>> for the empty
\* string and <<t>> for a time written in time.RFC3339, which keeps whole
\* seconds only.
formatRFC3339(t) == <<(t \div 1000) * 1000>>

parseRFC3339(s) == s[1]

ZeroTimedProgress ==
  [Stage |-> "", Done |-> FALSE, Progress |-> 0, ElapsedMs |-> 0, StartedAt |-> <<>>,
   UpdatedAt |-> <<>>]

\* setChatProgress with startedAt taken from the clock at every write.
setChatProgressAt_alwaysReset(P, sessionID, stage, done, now) ==
  Put(P, sessionID, [Stage |-> trimSpace(stage), Done |-> done,
                     Progress |-> progressByStage(stage, done), ElapsedMs |-> 0,
                     StartedAt |-> formatRFC3339(now), UpdatedAt |-> formatRFC3339(now)])

\* setChatProgress with its clock reading and its time fields.
setChatProgressAt(P, sessionID, stage, done, now) ==
  LET prev == Get(P, sessionID, ZeroTimedProgress)
      parsed == IF prev.StartedAt # <<>> THEN parseRFC3339(prev.StartedAt) ELSE now
      startedAt == IF toLower(trimSpace(stage)) = "received" \/ prev.StartedAt = <<>>
                   THEN now ELSE parsed
      elapsed == IF now - startedAt < 0 THEN 0 ELSE now - startedAt
  IN Put(P, sessionID, [Stage |-> trimSpace(stage), Done |-> done,
                        Progress |-> progressByStage(stage, done), ElapsedMs |-> elapsed,
                        StartedAt |-> formatRFC3339(startedAt),
                        UpdatedAt |-> formatRFC3339(now)])

setLastTargets(L, sessionID, targets) ==
  LET cp == Prefix(UniqueBy(SymbolKey, SelectSeq(enrichTargetNames(targets), LAMBDA t : t.Symbol # <<>>), 1, {}), 3)
  IN IF sessionID = "" \/ Len(targets) = 0 \/ Len(cp) = 0 THEN L ELSE Put(L, sessionID, cp)

getLastTargets(L, sessionID) == Get(L, sessionID, <<>>)

\* A run of progress writes of one turn, in order.
RECURSIVE setChatProgressAll(_, _, _)
setChatProgressAll(P, sessionID, stages) ==
  IF stages = <<>> THEN P
  ELSE setChatProgressAll(setChatProgress(P, sessionID, Head(stages), FALSE), sessionID, Tail(stages))

\* ------------------------------------------------------------ the state
VARIABLES
  sessions,       \* session id -> message list          (var sessions)
  reports,        \* session id -> report items          (var reports)
  chatProgress,   \* session id -> progress record       (var chatProgress)
  lastTargets,    \* session id -> remembered targets    (var lastTargets)
  glmKey,         \* TRUE iff the environment holds a non-empty GLM_KEY
  turn,           \* the locals of the handleChat call in progress
  turnNo,         \* number of chat requests answered so far
  storeMu,        \* the RWMutex guarding sessions, reports, chatProgress
  lastTargetsMu,  \* the RWMutex guarding lastTargets
  client,         \* the requests the client may send, and how many
  proc,           \* per session: the request running in the lock-level view
  solo            \* per session: what its own requests produce when run alone

vars == <<sessions, reports, chatProgress, lastTargets, glmKey, turn, turnNo,
          client, storeMu, lastTargetsMu, proc, solo>>

storeVars == <<sessions, reports, chatProgress, lastTargets>>

lockVars == <<storeMu, lastTargetsMu, proc, solo>>

\* ------------------------------------------------- model collaborators
\* What the model calls can come back with.  callGLM returns an error or a
\* text that is not blank; a text is the sequence of its kinds of line.
LLMTexts == {<<"prose", "tablerow">>, <<"fence">>}

RawRoutes == {"compare", "finance", "stock_rank", "board", "none", "Deep", " Compare", "news"}

RawDecisions == [NeedData : BOOLEAN, Route : RawRoutes, Reason : {"llm"}]

T_AAPL == Target(<<"AAPL">>, <<"AAPL">>, "US")

T_TSLA == Target(<<"TSLA">>, <<"TSLA">>, "US")

\* Validated outputs of callGLMResolveCompareTargets; <<>> stands for every
\* outcome the callers treat as "no targets" (error, empty list).
LLMResolveOutcomes == {<<>>, <<T_AAPL, T_TSLA>>}

\* Outputs of callGLMComparePlan, as the raw target strings of the plan; <<>>
\* stands for every outcome that leaves the heuristic plan's targets in place
\* (error, plan without targets).
LLMPlanOutcomes == {<<>>, <<[k |-> "ticker", v |-> <<"AAPL">>]>>}

NoDecision == [NeedData |-> FALSE, Route |-> "none", Reason |-> ""]

NoAnswer == [kind |-> "", text |-> <<>>]

Answer(kind, text) == [kind |-> kind, text |-> text]

IdleTurn ==
  [pc |-> "idle", sid |-> "", message |-> <<>>, deepMode |-> FALSE, professionalMode |-> FALSE,
   skillCompare |-> FALSE, carried |-> <<>>, apiKey |-> FALSE, decision |-> NoDecision,
   answer |-> NoAnswer, evidence |-> "", citations |-> <<>>, chart |-> "", table |-> "",
   notes |-> <<>>, deepFallbackNotice |-> FALSE, valueCellSucceeded |-> FALSE,
   log |-> <<>>, calls |-> <<>>, compareTargets |-> <<>>, results |-> <<>>,
   financeTarget |-> <<>>, financeSeries |-> <<>>, fromMemory |-> FALSE, words |-> <<>>,
   remembered |-> 0,
   errList |-> <<>>, newTargets |-> <<>>, memory |-> FALSE, dataSource |-> "", status |-> 0,
   series |-> <<>>]

\* ------------------------------------------------------------- handleChat
ChatSessions == {"s1"}

\* The modes of the multi-turn runs: plain chat, professional mode and deep
\* analysis.
DialogFlags == {<<>>, <<"pro">>, <<"deep">>}

FlagPrefixes ==
  {<<>>, <<"deep">>, <<"pro">>, <<"skill">>, <<"deep", "pro">>, <<"deep", "skill">>,
   <<"pro", "skill">>, <<"deep", "pro", "skill">>}

\* The three prefix tests of handleChat, in the order the code applies them.
parseModeFlags(flags) ==
  LET d == flags # <<>> /\ Head(flags) = "deep"
      r1 == IF d THEN Tail(flags) ELSE flags
      p == r1 # <<>> /\ Head(r1) = "pro"
      r2 == IF p THEN Tail(r1) ELSE r1
      k == r2 # <<>> /\ Head(r2) = "skill"
  IN [deepMode |-> d, professionalMode |-> p, skillCompare |-> k]

collectMemorySummaryV2(R, sessionID) ==
  \E i \in 1..Len(getReportItems(R, sessionID)) :
    LET it == getReportItems(R, sessionID)[i] IN ~(~it.Evidence /\ it.DataSource = "glm_only")

collectMemoryEvidenceV2(R, sessionID) ==
  \E i \in 1..Len(getReportItems(R, sessionID)) : getReportItems(R, sessionID)[i].Evidence

\* Lines 523-598: validation, the user message, the received and memory
\* stages, the mode flags and the carry-forward hint.
ChatReceive(sid, valid, flags, words) ==
  /\ turn.pc = "idle"
  /\ turnNo < client.turns
  /\ IF ~valid
     THEN /\ turn' = [IdleTurn EXCEPT !.pc = "responded", !.sid = sid, !.status = 400]
          /\ UNCHANGED storeVars
     ELSE LET m == parseModeFlags(flags)
              last == getLastTargets(lastTargets, sid)
              carry == ~m.deepMode /\ shouldCarryTargetsV2(words) /\ ~hasExplicitTargets(words)
                         /\ Len(last) > 0
              message == IF ~carry THEN words
                         ELSE IF Len(last) >= 2 THEN <<"duibi">> \o joinTargetHint(last) \o words
                         ELSE joinTargetHint(last) \o words
          IN /\ sessions' = appendMessage(ensureSession(sessions, sid), sid, "user", <<ToString(turnNo + 1)>>)
             /\ chatProgress' = setChatProgressAll(chatProgress, sid, <<"received", "memory">>)
             /\ turn' = [IdleTurn EXCEPT !.pc = "route", !.sid = sid, !.message = message,
                           !.words = words, !.remembered = Len(last),
                           !.deepMode = m.deepMode, !.professionalMode = m.professionalMode,
                           !.skillCompare = m.skillCompare,
                           !.carried = IF carry THEN last ELSE <<>>,
                           !.memory = collectMemorySummaryV2(reports, sid)
                                        \/ collectMemoryEvidenceV2(reports, sid),
                           !.log = <<"received", "memory">>]
             /\ UNCHANGED <<reports, lastTargets>>
  /\ UNCHANGED <<glmKey, turnNo, client, lockVars>>

\* strings.ToLower(strings.TrimSpace(route)) over the route strings of the model.
lowerTrim(route) ==
  CASE route = "Deep" -> "deep"
    [] route = " Compare" -> "compare"
    [] OTHER -> route

\* normalizeDataDecision without the default case of its switch.
normalizeDataDecision_keepsRoute(d) ==
  [d EXCEPT !.Route = IF ~d.NeedData THEN "none" ELSE lowerTrim(d.Route)]

normalizeDataDecision(d) ==
  LET lowered == lowerTrim(d.Route)
      route == IF lowered \in {"compare", "finance", "stock_rank", "board", "none"}
               THEN lowered ELSE "none"
  IN [d EXCEPT !.Route = IF ~d.NeedData THEN "none" ELSE route]

heuristicDataDecision(message) ==
  IF isStockRankQuestion(message)
  THEN [NeedData |-> TRUE, Route |-> "stock_rank", Reason |-> "stock_rank_rule"]
  ELSE IF isBoardAnalysisQuestion(message)
  THEN [NeedData |-> TRUE, Route |-> "board", Reason |-> "board_rule"]
  ELSE IF isCompareQuestion(message) \/ hasCompareHint(message)
  THEN [NeedData |-> TRUE, Route |-> "compare", Reason |-> "compare_rule"]
  ELSE IF isFinancialQuestion(message)
  THEN [NeedData |-> TRUE, Route |-> "finance", Reason |-> "finance_rule"]
  ELSE [NeedData |-> FALSE, Route |-> "none", Reason |-> "fallback_none"]

\* callGLMDataDecision: an error (<<>>) or the decoded decision, normalized.
callGLMDataDecision == {<<>>} \cup {<<normalizeDataDecision(d)>> : d \in RawDecisions}

\* Lines 606-622 with the model decision taken whenever the classifier answers.
reconcileDecision_modelWins(message, apiKey, modelOut) ==
  IF ~apiKey \/ modelOut = <<>> THEN heuristicDataDecision(message)
  ELSE normalizeDataDecision(modelOut[1])

\* Lines 606-622: the reconciliation of the heuristic and the model decision.
reconcileDecision(message, apiKey, modelOut) ==
  LET heuristic == heuristicDataDecision(message) IN
  IF ~apiKey \/ modelOut = <<>> THEN heuristic
  ELSE LET d == normalizeDataDecision(modelOut[1]) IN
       IF ~d.NeedData /\ heuristic.NeedData /\ isStrongDataIntent(message) THEN heuristic ELSE d

\* Lines 623-636 with the remembered targets tried before the raw text.
promoteDecision_memoryFirst(decision, message, last) ==
  IF shouldCarryTargetsV2(message) /\ Len(last) = 1
  THEN [NeedData |-> TRUE, Route |-> "finance", Reason |-> "opportunistic_memory_finance"]
  ELSE IF hasExplicitTargets(message)
  THEN [NeedData |-> TRUE, Route |-> "finance", Reason |-> "opportunistic_explicit_target"]
  ELSE IF shouldCarryTargetsV2(message) /\ Len(last) >= 2
  THEN [NeedData |-> TRUE, Route |-> "compare", Reason |-> "opportunistic_memory_compare"]
  ELSE IF Len(resolveCompareTargets(message, <<>>)) >= 2
  THEN [NeedData |-> TRUE, Route |-> "compare", Reason |-> "opportunistic_targets"]
  ELSE decision

\* Lines 623-636: the opportunistic promotion pass.
promoteDecision(decision, message, last) ==
  LET maybeTargets == resolveCompareTargets(message, <<>>) IN
  IF Len(maybeTargets) >= 2
  THEN [NeedData |-> TRUE, Route |-> "compare", Reason |-> "opportunistic_targets"]
  ELSE IF shouldCarryTargetsV2(message) /\ Len(last) >= 2
  THEN [NeedData |-> TRUE, Route |-> "compare", Reason |-> "opportunistic_memory_compare"]
  ELSE IF hasExplicitTargets(message)
  THEN [NeedData |-> TRUE, Route |-> "finance", Reason |-> "opportunistic_explicit_target"]
  ELSE IF shouldCarryTargetsV2(message) /\ Len(last) = 1
  THEN [NeedData |-> TRUE, Route |-> "finance", Reason |-> "opportunistic_memory_finance"]
  ELSE decision

\* Lines 600-636 with the compare-skill flag tested before the deep flag.
decideRoute_skillFirst(t, modelOut, last) ==
  LET base == IF t.skillCompare
              THEN [NeedData |-> TRUE, Route |-> "compare", Reason |-> "skill_compare"]
              ELSE IF t.deepMode THEN [NeedData |-> TRUE, Route |-> "deep", Reason |-> "deep_mode"]
              ELSE IF t.professionalMode THEN reconcileDecision(t.message, glmKey, modelOut)
              ELSE [NeedData |-> FALSE, Route |-> "none", Reason |-> ""]
  IN IF t.professionalMode /\ ~t.deepMode /\ ~base.NeedData
     THEN promoteDecision(base, t.message, last) ELSE base

\* Lines 600-636: the route stage and the DataDecision of the turn.
decideRoute(t, modelOut, last) ==
  LET base == IF t.deepMode THEN [NeedData |-> TRUE, Route |-> "deep", Reason |-> "deep_mode"]
              ELSE IF t.skillCompare
              THEN [NeedData |-> TRUE, Route |-> "compare", Reason |-> "skill_compare"]
              ELSE IF t.professionalMode THEN reconcileDecision(t.message, glmKey, modelOut)
              ELSE [NeedData |-> FALSE, Route |-> "none", Reason |-> ""]
  IN IF t.professionalMode /\ ~t.deepMode /\ ~base.NeedData
     THEN promoteDecision(base, t.message, last) ELSE base

\* Line 637 with the data pipeline open to every turn.
dataPipelineEnabled_always(t) == TRUE

\* The switches of lines 637-651.
dataPipelineEnabled(t) == t.skillCompare \/ t.professionalMode

allowAllRoutes(t) == ~t.professionalMode \/ t.decision.Route \in {"", "none"}

compareRouteOpen(t) == allowAllRoutes(t) \/ t.decision.Route = "compare" \/ t.skillCompare

rankRouteOpen(t) == allowAllRoutes(t) \/ t.decision.Route = "stock_rank"

boardRouteOpen(t) == allowAllRoutes(t) \/ t.decision.Route = "board"

financeRouteOpen(t) == allowAllRoutes(t) \/ t.decision.Route = "finance"

fallbackToLLMOnDataFailure_never(t) == FALSE

fallbackToLLMOnDataFailure(t) == t.professionalMode /\ ~t.skillCompare

Progress(t, stage) == [t EXCEPT !.log = Append(@, stage)]

Call(t, provider, code) == [t EXCEPT !.calls = Append(@, [provider |-> provider, code |-> code])]

Cite(t, c) == [t EXCEPT !.citations = Append(@, c)]

recordDataFailure(t, msg) == [t EXCEPT !.notes = Append(@, msg)]

\* A data failure: a note when the mode falls back to the model, else the answer.
FailWith(t, msg) ==
  IF fallbackToLLMOnDataFailure(t) THEN recordDataFailure(t, msg)
  ELSE [t EXCEPT !.answer = Answer(msg, <<"prose">>)]

\* What a step leaves in the store: the progress writes it added to the log.
CommitProgress(t) ==
  chatProgress' = setChatProgressAll(chatProgress, turn.sid,
                                     SubSeq(t.log, Len(turn.log) + 1, Len(t.log)))

Citation(title, code, noteCode) == [title |-> title, code |-> code, noteCode |-> noteCode]

\* callGLM as the callers use it: <<>> for an error, <<text>> otherwise.
callGLM == {<<>>} \cup {<<x>> : x \in LLMTexts}

buildEvidenceFallbackAnswer == Answer("evidence_fallback", <<"prose">>)

\* getDeepAnalysisFromValueCell: the bridge subprocess answers with a usable
\* analysis, a weak one, an error, or never returns (cmd.Output has no deadline).
DeepBridgeOutcomes == {"ok", "weak", "err", "hang"}

\* Lines 661-754: the deep-analysis stage.
DeepOutcomes(t) ==
  LET t1 == [Progress(t, "deep_plan") EXCEPT !.apiKey = IF t.apiKey THEN TRUE ELSE glmKey]
      ruleTargets == resolveCompareTargets(t.message, <<>>)
      askModel == Len(ruleTargets) = 0 /\ t1.apiKey
      Resolved(llm) ==
        LET a == IF Len(ruleTargets) = 0 /\ Len(llm) > 0 THEN llm ELSE ruleTargets
            b == enrichTargetNames(applyMarketConstraintByQuestion(t.message, a))
        IN IF ~isCompareQuestion(t.message) /\ Len(b) > 1 THEN <<b[1]>> ELSE b
      Queried(llm) ==
        Call([Progress(t1, "deep_query") EXCEPT !.newTargets = Resolved(llm)], "valuecell", <<>>)
      Failed(u, msg, title) ==
        Cite([recordDataFailure(u, msg) EXCEPT !.deepFallbackNotice = TRUE],
             Citation(title, <<>>, <<>>))
      Found(u) ==
        Cite(Cite([u EXCEPT !.evidence = "deep", !.valueCellSucceeded = TRUE],
                  Citation("valuecell_query_record", <<>>, <<>>)),
             Citation("valuecell_repo", <<>>, <<>>))
      Tagged(a) == Answer("deep", <<"prose">> \o a.text)
      Summarized(u) ==
        IF ~u.apiKey THEN {[u EXCEPT !.answer = Tagged(buildEvidenceFallbackAnswer)]}
        ELSE {[Progress(u, "deep_summary") EXCEPT
                 !.answer = Tagged(IF g = <<>> THEN buildEvidenceFallbackAnswer ELSE Answer("deep", g[1]))]
              : g \in callGLM}
      After(u, out) ==
        CASE out = "hang" -> {[u EXCEPT !.pc = "blocked"]}
          [] out = "err" -> {Failed(u, "deep_failed", "deep_failure_detail")}
          [] out = "weak" -> {Failed(u, "deep_weak", "deep_query_record")}
          [] OTHER -> Summarized(Found(u))
  IN UNION {After(Queried(llm), out) :
              llm \in (IF askModel THEN LLMResolveOutcomes ELSE {<<>>}), out \in DeepBridgeOutcomes}

\* One provider chain for one target (lines 804-841 and 1077-1107): the
\* international provider first for an international target in professional
\* mode, then the mapped code through the domestic bridge; the domestic bridge
\* alone otherwise.  A bridge call may never return.
fetchSeries(target, professionalMode) ==
  LET Res(ok, hung, code, tag, err, calls) ==
        [ok |-> ok, hung |-> hung, queryCode |-> code, sourceTag |-> tag, err |-> err, calls |-> calls]
      eodhd == [provider |-> "eodhd", code |-> target.Symbol]
      ak(code) == [provider |-> "akshare", code |-> code]
      fb == selectAkshareFallbackCode(target)
  IN IF target.Market = "US" /\ professionalMode
     THEN {Res(TRUE, FALSE, target.Symbol, "eodhd", "", <<eodhd>>)}
          \cup (IF Len(fb) > 0
                THEN {Res(TRUE, FALSE, fb[1], "akshare", "", <<eodhd, ak(fb[1])>>),
                      Res(FALSE, FALSE, fb[1], "eodhd", "eodhd_and_akshare_failed", <<eodhd, ak(fb[1])>>),
                      Res(FALSE, TRUE, fb[1], "eodhd", "", <<eodhd, ak(fb[1])>>)}
                ELSE {Res(FALSE, FALSE, target.Symbol, "eodhd", "eodhd_failed", <<eodhd>>)})
     ELSE {Res(TRUE, FALSE, target.Symbol, "akshare", "", <<ak(target.Symbol)>>),
           Res(FALSE, FALSE, target.Symbol, "akshare", "akshare_failed", <<ak(target.Symbol)>>),
           Res(FALSE, TRUE, target.Symbol, "akshare", "", <<ak(target.Symbol)>>)}

\* The citation of lines 854-873 with the plain note in every case.
compareCitation_plainNote(target, r) ==
  Citation(IF r.sourceTag = "eodhd" THEN "eodhd_query" ELSE "akshare_query", r.queryCode, <<>>)

\* Lines 854-873: the citation of one fetched comparison target.
compareCitation(target, r) ==
  Citation(IF r.sourceTag = "eodhd" THEN "eodhd_query" ELSE "akshare_query",
           r.queryCode,
           IF r.queryCode # target.Symbol THEN r.queryCode ELSE <<>>)

RECURSIVE CompareLoop(_, _, _)
\* Lines 804-874: the targets are fetched in order; a failed target goes to
\* errList and the loop goes on.
CompareLoop(t, targets, i) ==
  IF i > Len(targets) THEN {t}
  ELSE UNION {
    LET u == [Progress(t, "compare_query") EXCEPT !.calls = @ \o r.calls] IN
    IF r.hung THEN {[u EXCEPT !.pc = "blocked"]}
    ELSE IF ~r.ok
    THEN CompareLoop([u EXCEPT !.errList = Append(@, [target |-> targets[i], reason |-> r.err])],
                     targets, i + 1)
    ELSE CompareLoop(Cite([u EXCEPT !.results = Append(@, [Target |-> targets[i],
                                                          QueryCode |-> r.queryCode,
                                                          SourceTag |-> r.sourceTag])],
                          compareCitation(targets[i], r)), targets, i + 1)
    : r \in fetchSeries(targets[i], t.professionalMode)}

\* The guard of line 796 letting a single target through.
enoughTargets_one(targets) == Len(targets) >= 1

\* Line 796: a comparison needs two targets.
enoughTargets(targets) == Len(targets) >= 2

\* The guard of line 894 letting a single series through.
enoughResults_one(results) == Len(results) >= 1

\* Line 894: and two fetched series.
enoughResults(results) == Len(results) >= 2

MaxCompareTargets == 3

\* Lines 761: whether the comparison stage runs.
compareStageOpen(t) ==
  /\ t.answer.text = <<>>
  /\ dataPipelineEnabled(t)
  /\ compareRouteOpen(t)
  /\ \/ t.skillCompare
     \/ t.decision.Route = "compare"
     \/ isCompareQuestion(t.message)
     \/ t.professionalMode /\ (hasCompareHint(t.message)
                               \/ Len(resolveCompareTargets(t.message, <<>>)) >= 2)

\* Lines 772-787: the targets of the plan and the text, merged with the
\* model's in professional mode.
mergedCompareTargets(t, planTargets, llmResolved) ==
  IF t.professionalMode
  THEN mergeCompareTargetLists(<<llmResolved, resolveCompareTargets(t.message, planTargets),
                                 resolveCompareTargets(t.message, <<>>)>>)
  ELSE resolveCompareTargets(t.message, planTargets)

\* Lines 788-793: the model is asked once more when fewer than two are held.
retriedCompareTargets(t, targets, llmResolved, llmAgain) ==
  IF t.professionalMode /\ Len(targets) < 2 /\ glmKey /\ Len(llmResolved) = 0 /\ Len(llmAgain) >= 2
  THEN mergeCompareTargetLists(<<llmAgain, targets>>) ELSE targets

\* Lines 772-795: the targets of the comparison.
compareTargetsOf(t, planTargets, llmResolved, llmAgain) ==
  enrichTargetNames(applyMarketConstraintByQuestion(
    t.message,
    retriedCompareTargets(t, mergedCompareTargets(t, planTargets, llmResolved), llmResolved, llmAgain)))

\* Lines 875-935: what the comparison stage does with the fetched results.
CompareRendered(t) ==
  LET usedEODHD == \E i \in 1..Len(t.results) : t.results[i].SourceTag = "eodhd"
      usedAkshare == \E i \in 1..Len(t.results) : t.results[i].SourceTag # "eodhd"
      c1 == IF usedAkshare \/ ~usedEODHD THEN Cite(t, Citation("akshare_doc", <<>>, <<>>)) ELSE t
      c2 == IF usedEODHD THEN Cite(c1, Citation("eodhd_doc", <<>>, <<>>)) ELSE c1
      Partial(a) == IF Len(t.errList) > 0 THEN Answer(a.kind, a.text \o <<"prose">>) ELSE a
      fallback == Answer("compare_fallback", <<"prose">>)
  IN IF enoughResults(t.results)
     THEN LET r == [Progress(c2, "compare_render") EXCEPT
                      !.newTargets = targetsFromResults(t.results),
                      !.table = "compare", !.evidence = "compare"]
          IN {[(IF r.apiKey THEN Progress(r, "llm_summary") ELSE r) EXCEPT
                 !.chart = "compare",
                 !.answer = Partial(IF g = <<>> THEN fallback ELSE Answer("compare_summary", g[1]))]
              : g \in (IF r.apiKey THEN callGLM ELSE {<<>>})}
     ELSE {FailWith(c2, "insufficient_data")}

\* Lines 756-935: the comparison stage.
\* Lines 796-935: the comparison of the resolved targets.
CompareTargetsStage(t, targets) ==
  IF enoughTargets(targets)
  THEN UNION {IF v.pc = "blocked" THEN {v} ELSE CompareRendered(v)
              : v \in CompareLoop([t EXCEPT !.compareTargets = targets],
                                  Prefix(targets, MaxCompareTargets), 1)}
  ELSE {FailWith([t EXCEPT !.compareTargets = targets], "insufficient_targets")}

\* Line 769-771: the plan and the targets are asked of the model when a key is set.
compareAskModel(t) == (t.professionalMode \/ t.skillCompare) /\ glmKey

CompareOutcomes(t) ==
  UNION {CompareTargetsStage([Progress(t, "compare_plan") EXCEPT !.apiKey = glmKey],
                             compareTargetsOf(t, planTargets, llmResolved, llmAgain)) :
           planTargets \in (IF compareAskModel(t) THEN LLMPlanOutcomes ELSE {<<>>}),
           llmResolved \in (IF compareAskModel(t) THEN LLMResolveOutcomes ELSE {<<>>}),
           llmAgain \in (IF t.professionalMode /\ glmKey THEN LLMResolveOutcomes ELSE {<<>>})}

\* getStockRankFromAkshare / getBoardPerformanceFromAkshare run the bridge
\* subprocess: rows, no rows, an error, or no return at all.
BridgeOutcomes == {"ok", "empty", "err", "hang"}

rankStageOpen(t) ==
  /\ t.answer.text = <<>>
  /\ dataPipelineEnabled(t)
  /\ rankRouteOpen(t)
  /\ (t.decision.Route = "stock_rank" \/ isStockRankQuestion(t.message))

\* Lines 937-988: the stock ranking stage.
RankOutcomes(t) ==
  LET u == Call(Progress(t, "stock_rank"), "akshare", <<"rank">>)
      cited == Cite(Cite(u, Citation("akshare_rank_query", <<>>, <<>>)),
                    Citation("akshare_doc", <<>>, <<>>))
  IN {CASE out = "hang" -> [u EXCEPT !.pc = "blocked"]
        [] out = "ok" -> [cited EXCEPT !.evidence = "stock_rank", !.chart = "stock_rank",
                                    !.table = "stock_rank",
                                    !.answer = Answer("stock_rank", <<"prose">>)]
        [] OTHER -> FailWith(cited, "stock_rank_failed")
      : out \in BridgeOutcomes}

boardStageOpen(t) ==
  /\ t.answer.text = <<>>
  /\ dataPipelineEnabled(t)
  /\ boardRouteOpen(t)
  /\ (t.decision.Route = "board" \/ isBoardAnalysisQuestion(t.message))

\* Lines 990-1040: the board stage.  No rows without an error leaves the turn
\* as it was.
BoardOutcomes(t) ==
  LET u == Call(Progress(t, "board"), "akshare", <<"board">>)
      cited == Cite(Cite(u, Citation("akshare_board_query", <<>>, <<>>)),
                    Citation("akshare_doc", <<>>, <<>>))
  IN {CASE out = "hang" -> [u EXCEPT !.pc = "blocked"]
        [] out = "ok" -> [cited EXCEPT !.evidence = "board", !.chart = "board",
                                    !.table = "board", !.answer = Answer("board", <<"prose">>)]
        [] out = "empty" -> u
        [] OTHER -> FailWith(cited, "board_failed")
      : out \in BridgeOutcomes}

financeStageOpen(t) ==
  /\ t.answer.text = <<>>
  /\ dataPipelineEnabled(t)
  /\ financeRouteOpen(t)
  /\ (t.decision.Route = "finance" \/ isFinancialQuestion(t.message))

\* Lines 1046-1067: the target of the finance stage.
financeTargetOf(t, llm, last) ==
  LET rule == resolveFinancialTarget(t.message) IN
  IF Len(llm) > 0 THEN <<llm[1]>>
  ELSE IF Len(rule) > 0 THEN rule
  ELSE IF ~hasExplicitTargets(t.message) /\ Len(last) > 0 THEN <<last[1]>>
  ELSE <<>>

\* Lines 1142-1200: the citations of a fetched finance series.
financeCitations(t, target, sourceTag, queryCode) ==
  CASE sourceTag = "akshare" ->
         Cite(Cite(t, Citation("akshare_finance_query", queryCode,
                               IF queryCode # target.Symbol THEN queryCode ELSE <<>>)),
              Citation("akshare_doc", <<>>, <<>>))
    [] sourceTag = "eodhd" ->
         Cite(Cite(t, Citation("eodhd_finance_query", queryCode, <<>>)),
              Citation("eodhd_doc", <<>>, <<>>))
    [] OTHER -> Cite(t, Citation("local_fallback", <<>>, <<>>))

\* Lines 1042-1202: the single-company finance stage.
FinanceOutcomes(t, last) ==
  LET consult == t.professionalMode
                   /\ (hasExplicitTargets(t.message) \/ Len(last) > 0 \/ t.decision.Route = "finance")
      key == IF consult /\ ~t.apiKey THEN glmKey ELSE t.apiKey
      t1 == [Progress(t, "finance_target") EXCEPT !.apiKey = key]
      Found(u, target, sourceTag, queryCode) ==
        {[Progress(financeCitations(u, target, sourceTag, queryCode), "finance_summary") EXCEPT
            !.evidence = "finance", !.chart = "finance", !.table = "finance",
            !.apiKey = IF u.apiKey THEN TRUE ELSE glmKey,
            !.financeSeries = <<[Target |-> target, QueryCode |-> queryCode, SourceTag |-> sourceTag]>>,
            !.answer = Answer("finance", <<"prose">>)]}
      Fetched(u, target, r) ==
        LET v == [u EXCEPT !.calls = @ \o r.calls] IN
        IF r.hung THEN {[v EXCEPT !.pc = "blocked"]}
        ELSE IF r.ok THEN Found(v, target, r.sourceTag, r.queryCode)
        ELSE IF r.sourceTag = "eodhd" THEN {FailWith(v, "eodhd_failed")}
        ELSE Found(Call(v, "local", target.Symbol), target, "local_fallback", r.queryCode)
               \cup {FailWith(Call(v, "local", target.Symbol), "finance_failed")}
      Queried(target, remembered) ==
        LET u == [Progress(t1, "finance_query") EXCEPT
                    !.financeTarget = <<target>>, !.newTargets = <<target>>,
                    !.fromMemory = remembered]
        IN UNION {Fetched(u, target, r) : r \in fetchSeries(target, t.professionalMode)}
      Stage(llm) ==
        LET x == financeTargetOf(t, llm, last) IN
        IF Len(x) = 0 THEN {t1}
        ELSE Queried(enrichTargetName(x[1]),
                     Len(llm) = 0 /\ Len(resolveFinancialTarget(t.message)) = 0)
  IN UNION {Stage(llm) : llm \in (IF consult /\ key THEN LLMResolveOutcomes ELSE {<<>>})}

\* Lines 1204-1217: the failure notes join the evidence.
mergeFailureNotes(t) ==
  [t EXCEPT
     !.evidence = IF Len(t.notes) > 0 /\ (~t.deepMode \/ t.evidence # "") /\ t.evidence = ""
                  THEN "failure_notes" ELSE @,
     !.deepFallbackNotice = @ \/ (t.deepMode /\ t.answer.text = <<>> /\ Len(t.notes) > 0)]

\* Lines 1219-1242: the model stage.
LLMOutcomes(t) ==
  LET m == mergeFailureNotes(t)
      llmEvidence == m.evidence # "" \/ m.memory
      unavailable(kind) == IF llmEvidence THEN buildEvidenceFallbackAnswer
                           ELSE Answer(kind, <<"prose">>)
  IN IF m.answer.text # <<>> THEN {m}
     ELSE LET a == [Progress(m, "llm") EXCEPT !.apiKey = glmKey] IN
          IF ~glmKey THEN {[a EXCEPT !.answer = unavailable("model_not_configured")]}
          ELSE {[Call(Progress(a, "llm"), "glm", <<>>) EXCEPT
                   !.answer = IF g = <<>> THEN unavailable("model_unavailable")
                              ELSE Answer("llm", g[1])]
                : g \in callGLM}

\* cleanAssistantAnswer over an answer given as its lines: fenced blocks
\* always go; table rows go when a chart or a table is shown.
cleanAssistantAnswer(text, hasChart, hasTable) ==
  SelectSeq(text, LAMBDA line : line # "fence" /\ ~((hasChart \/ hasTable) /\ line = "tablerow"))

\* Lines 1256-1283: the data source label, from the citation titles.
dataSourceOf(t) ==
  LET titles == {t.citations[i].title : i \in 1..Len(t.citations)}
      hasEODHD == titles \cap {"eodhd_query", "eodhd_doc", "eodhd_finance_query"} # {}
      hasAkshare == titles \cap {"akshare_query", "akshare_doc", "akshare_finance_query",
                                 "akshare_rank_query", "akshare_board_query"} # {}
      base == IF "local_fallback" \in titles THEN "local_fallback" ELSE "glm_only"
  IN IF t.valueCellSucceeded THEN "valuecell"
     ELSE IF hasAkshare /\ hasEODHD THEN "professional"
     ELSE IF hasEODHD THEN "eodhd"
     ELSE IF hasAkshare /\ base = "glm_only" THEN "akshare"
     ELSE base

\* Lines 1244-1254 without the last-resort text of lines 1248-1254.
finalAnswer_noPlaceholder(t) ==
  LET cleaned == cleanAssistantAnswer(t.answer.text, t.chart # "", t.table # "")
  IN Answer(t.answer.kind,
            IF t.deepMode /\ t.deepFallbackNotice THEN <<"prose">> \o cleaned ELSE cleaned)

\* Lines 1244-1254: the answer handed to the user.
finalAnswer(t) ==
  LET cleaned == cleanAssistantAnswer(t.answer.text, t.chart # "", t.table # "")
      noticed == IF t.deepMode /\ t.deepFallbackNotice THEN <<"prose">> \o cleaned ELSE cleaned
  IN IF noticed = <<>> THEN Answer("placeholder", <<"prose">>) ELSE Answer(t.answer.kind, noticed)

\* The stages in the order handleChat tries them, and the condition of each.
StagePc == <<"deep", "compare", "rank", "board", "finance", "llm">>

StageOpen(t, stage) ==
  CASE stage = "deep" -> t.answer.text = <<>> /\ t.deepMode
    [] stage = "compare" -> compareStageOpen(t)
    [] stage = "rank" -> rankStageOpen(t)
    [] stage = "board" -> boardStageOpen(t)
    [] stage = "finance" -> financeStageOpen(t)
    [] OTHER -> t.answer.text = <<>>

RECURSIVE nextStage(_, _)
\* The first stage from the i-th on whose condition holds; "finish" if none.
nextStage(t, i) ==
  IF i > Len(StagePc) THEN "finish"
  ELSE IF StageOpen(t, StagePc[i]) THEN StagePc[i]
  ELSE nextStage(t, i + 1)

\* Lines 600-660: the route stage.
ChatRoute ==
  /\ turn.pc = "route"
  /\ LET askModel == ~turn.deepMode /\ ~turn.skillCompare /\ turn.professionalMode /\ glmKey IN
     \E modelOut \in (IF askModel THEN callGLMDataDecision ELSE {<<>>}) :
       LET t == [turn EXCEPT
                   !.apiKey = IF ~turn.deepMode /\ ~turn.skillCompare /\ turn.professionalMode
                              THEN glmKey ELSE FALSE,
                   !.decision = decideRoute(turn, modelOut, getLastTargets(lastTargets, turn.sid)),
                   !.log = Append(turn.log, "route")]
       IN turn' = [t EXCEPT !.pc = nextStage(t, 1)]
  /\ chatProgress' = setChatProgress(chatProgress, turn.sid, "route", FALSE)
  /\ UNCHANGED <<sessions, reports, lastTargets, glmKey, turnNo, client, lockVars>>

\* One stage of the pipeline: one of its outcomes, with the progress writes
\* and the setLastTargets call the stage made; the turn goes on with the next
\* stage whose condition holds.  A stage waiting on a bridge that never
\* returns stays where it is.
StageStep(i, outcomes) ==
  /\ \E t \in outcomes :
       /\ turn' = [t EXCEPT !.pc = IF t.pc = "blocked" THEN "blocked" ELSE nextStage(t, i + 1),
                            !.newTargets = <<>>]
       /\ CommitProgress(t)
       /\ lastTargets' = setLastTargets(lastTargets, turn.sid, t.newTargets)
  /\ UNCHANGED <<sessions, reports, glmKey, turnNo, client, lockVars>>

ChatDeep ==
  /\ turn.pc = "deep"
  /\ StageStep(1, DeepOutcomes(turn))

ChatCompare ==
  /\ turn.pc = "compare"
  /\ StageStep(2, CompareOutcomes(turn))

ChatRank ==
  /\ turn.pc = "rank"
  /\ StageStep(3, RankOutcomes(turn))

ChatBoard ==
  /\ turn.pc = "board"
  /\ StageStep(4, BoardOutcomes(turn))

ChatFinance ==
  /\ turn.pc = "finance"
  /\ StageStep(5, FinanceOutcomes(turn, getLastTargets(lastTargets, turn.sid)))

ChatLLM ==
  /\ turn.pc = "llm"
  /\ StageStep(6, LLMOutcomes(turn))

\* Lines 1244-1303: the answer is cleaned, stored, reported and returned.
ChatFinish ==
  /\ turn.pc = "finish"
  /\ LET t == mergeFailureNotes(turn)
         a == finalAnswer(t)
         ds == dataSourceOf(t)
         item == [Question |-> <<ToString(turnNo + 1)>>, Answer |-> a.text,
                  Evidence |-> t.evidence # "", DataSource |-> ds]
     IN /\ sessions' = appendMessage(sessions, t.sid, "assistant", a.text)
        /\ reports' = appendReportItem(reports, t.sid, item)
        /\ chatProgress' = setChatProgress(chatProgress, t.sid, "done", TRUE)
        /\ turn' = [t EXCEPT !.pc = "responded", !.answer = a, !.dataSource = ds,
                             !.status = 200, !.log = Append(@, "done")]
  /\ UNCHANGED <<lastTargets, glmKey, turnNo, client, lockVars>>

\* The handler has returned; the next request may arrive.
ChatReturn ==
  /\ turn.pc = "responded"
  /\ turn' = IdleTurn
  /\ turnNo' = turnNo + 1
  /\ UNCHANGED <<storeVars, glmKey, client, lockVars>>

ChatRequest ==
  \E sid \in ChatSessions, valid \in BOOLEAN, flags \in client.flags,
     words \in (IF turnNo = 0 THEN client.opening ELSE client.messages) :
    ChatReceive(sid, valid, flags, words)

\* ------------------------------------------------ the lock-level view
\* The same handlers seen as the store accessors they call, one request
\* at a time on each session and the sessions running concurrently.  An
\* accessor is entered by taking its mutex and left by running its body
\* and releasing the mutex.
Accessor(fn, sid, name, done, body) ==
  [fn |-> fn, sid |-> sid, name |-> name, done |-> done, body |-> body]

Call0(fn, sid) == Accessor(fn, sid, "", FALSE, <<>>)

ProgressOp(sid, stage) == Accessor("setChatProgress", sid, stage, FALSE, <<>>)

\* POST /api/session
SessionOps(sid) == <<Call0("ensureSession", sid)>>

\* GET /api/chat/status/{id}
StatusOps(sid) == <<Call0("getChatProgress", sid)>>

\* GET /api/history/{id}
HistoryOps(sid) == <<Call0("getMessages", sid)>>

\* The head of every accepted chat turn, up to the memory stage.
ChatHeadOps(sid, n) ==
  <<Call0("ensureSession", sid),
    Accessor("appendMessage", sid, "user", FALSE, <<ToString(n)>>),
    ProgressOp(sid, "received"),
    Call0("getMessages", sid),
    ProgressOp(sid, "memory"),
    Call0("getReportItems", sid),
    Call0("getReportItems", sid)>>

\* The tail of every accepted chat turn.
ChatTailOps(sid, n, evidence, source) ==
  <<Accessor("appendMessage", sid, "assistant", FALSE, <<"prose">>),
    Accessor("appendReportItem", sid, "", FALSE,
       <<[Question |-> <<ToString(n)>>, Answer |-> <<"prose">>, Evidence |-> evidence, DataSource |-> source]>>),
    Accessor("setChatProgress", sid, "done", TRUE, <<>>)>>

\* A turn without flags whose message refers back ("tamen ..."): the carry
\* test reads the remembered targets, and the model answers.
ChatFollowUpOps(sid, n) ==
  ChatHeadOps(sid, n)
    \o <<Call0("getLastTargets", sid), ProgressOp(sid, "route"),
         ProgressOp(sid, "llm"), ProgressOp(sid, "llm")>>
    \o ChatTailOps(sid, n, FALSE, "glm_only")

\* A professional turn asking for one named company's figures ("TSLA
\* yingshou"), the primary provider answering.
ChatFinanceOps(sid, n) ==
  ChatHeadOps(sid, n)
    \o <<ProgressOp(sid, "route"), ProgressOp(sid, "finance_target"),
         ProgressOp(sid, "finance_query"),
         Accessor("setLastTargets", sid, "", FALSE, <<T_TSLA>>),
         ProgressOp(sid, "finance_summary")>>
    \o ChatTailOps(sid, n, TRUE, "eodhd")

RequestKinds == {"session", "status", "history", "chat_followup", "chat_finance"}

RequestOps(kind, sid, n) ==
  CASE kind = "session" -> SessionOps(sid)
    [] kind = "status" -> StatusOps(sid)
    [] kind = "history" -> HistoryOps(sid)
    [] kind = "chat_followup" -> ChatFollowUpOps(sid, n)
    [] kind = "chat_finance" -> ChatFinanceOps(sid, n)

\* The mutex an accessor takes, and how.
LockOf_statusUnlocked(fn) ==
  CASE fn \in {"ensureSession", "appendMessage", "appendReportItem", "setChatProgress"} ->
         [mu |-> "storeMu", mode |-> "w"]
    [] fn \in {"getMessages", "getReportItems"} -> [mu |-> "storeMu", mode |-> "r"]
    [] fn = "getChatProgress" -> [mu |-> "none", mode |-> "r"]
    [] fn = "setLastTargets" -> [mu |-> "lastTargetsMu", mode |-> "w"]
    [] fn = "getLastTargets" -> [mu |-> "lastTargetsMu", mode |-> "r"]

LockOf(fn) ==
  CASE fn \in {"ensureSession", "appendMessage", "appendReportItem", "setChatProgress"} ->
         [mu |-> "storeMu", mode |-> "w"]
    [] fn \in {"getMessages", "getReportItems", "getChatProgress"} -> [mu |-> "storeMu", mode |-> "r"]
    [] fn = "setLastTargets" -> [mu |-> "lastTargetsMu", mode |-> "w"]
    [] fn = "getLastTargets" -> [mu |-> "lastTargetsMu", mode |-> "r"]

\* The map an accessor's body touches, and whether it writes it.
AccessOf(fn) ==
  CASE fn \in {"ensureSession", "appendMessage"} -> [map |-> "sessions", write |-> TRUE]
    [] fn = "getMessages" -> [map |-> "sessions", write |-> FALSE]
    [] fn = "appendReportItem" -> [map |-> "reports", write |-> TRUE]
    [] fn = "getReportItems" -> [map |-> "reports", write |-> FALSE]
    [] fn = "setChatProgress" -> [map |-> "chatProgress", write |-> TRUE]
    [] fn = "getChatProgress" -> [map |-> "chatProgress", write |-> FALSE]
    [] fn = "setLastTargets" -> [map |-> "lastTargets", write |-> TRUE]
    [] fn = "getLastTargets" -> [map |-> "lastTargets", write |-> FALSE]

\* sync.RWMutex: one writer or any number of readers.
CanLock(m, mode) == IF mode = "w" THEN m.writer = "" /\ m.readers = {} ELSE m.writer = ""

Locked(m, who, mode) ==
  IF mode = "w" THEN [m EXCEPT !.writer = who] ELSE [m EXCEPT !.readers = @ \cup {who}]

Released(m, who) ==
  [writer |-> IF m.writer = who THEN "" ELSE m.writer, readers |-> m.readers \ {who}]

EmptyStore ==
  [sessions |-> EmptyMap, reports |-> EmptyMap, chatProgress |-> EmptyMap, lastTargets |-> EmptyMap]

\* The body of an accessor, applied to the four maps.
ApplyOp(st, op) ==
  CASE op.fn = "ensureSession" -> [st EXCEPT !.sessions = ensureSession(@, op.sid)]
    [] op.fn = "appendMessage" -> [st EXCEPT !.sessions = appendMessage(@, op.sid, op.name, op.body)]
    [] op.fn = "appendReportItem" -> [st EXCEPT !.reports = appendReportItem(@, op.sid, op.body[1])]
    [] op.fn = "setChatProgress" -> [st EXCEPT !.chatProgress = setChatProgress(@, op.sid, op.name, op.done)]
    [] op.fn = "setLastTargets" -> [st EXCEPT !.lastTargets = setLastTargets(@, op.sid, op.body)]
    [] OTHER -> st

RECURSIVE RunAlone(_, _)
RunAlone(st, ops) == IF ops = <<>> THEN st ELSE RunAlone(ApplyOp(st, Head(ops)), Tail(ops))

IdleProc == [prog |-> <<>>, in |-> FALSE, served |-> 0]

\* A request arrives on a session that has none running.
ConcStart(s, kind) ==
  /\ proc[s].prog = <<>>
  /\ proc[s].served < client.turns
  /\ LET ops == RequestOps(kind, s, proc[s].served + 1)
     IN /\ proc' = [proc EXCEPT ![s] = [prog |-> ops, in |-> FALSE, served |-> @.served + 1]]
        /\ solo' = [solo EXCEPT ![s] = RunAlone(@, ops)]
  /\ UNCHANGED <<storeVars, storeMu, lastTargetsMu, glmKey, turn, turnNo, client>>

\* The request's next accessor takes its mutex.
ConcEnter(s) ==
  /\ proc[s].prog # <<>>
  /\ ~proc[s].in
  /\ LET l == LockOf(Head(proc[s].prog).fn)
     IN CASE l.mu = "storeMu" ->
               /\ CanLock(storeMu, l.mode)
               /\ storeMu' = Locked(storeMu, s, l.mode)
               /\ UNCHANGED lastTargetsMu
          [] l.mu = "lastTargetsMu" ->
               /\ CanLock(lastTargetsMu, l.mode)
               /\ lastTargetsMu' = Locked(lastTargetsMu, s, l.mode)
               /\ UNCHANGED storeMu
          [] OTHER -> UNCHANGED <<storeMu, lastTargetsMu>>
  /\ proc' = [proc EXCEPT ![s].in = TRUE]
  /\ UNCHANGED <<storeVars, solo, glmKey, turn, turnNo, client>>

\* The accessor's body runs and the mutex is released.
ConcLeave(s) ==
  /\ proc[s].in
  /\ LET op == Head(proc[s].prog)
         st == ApplyOp([sessions |-> sessions, reports |-> reports,
                        chatProgress |-> chatProgress, lastTargets |-> lastTargets], op)
     IN /\ sessions' = st.sessions
        /\ reports' = st.reports
        /\ chatProgress' = st.chatProgress
        /\ lastTargets' = st.lastTargets
  /\ storeMu' = Released(storeMu, s)
  /\ lastTargetsMu' = Released(lastTargetsMu, s)
  /\ proc' = [proc EXCEPT ![s] = [prog |-> Tail(@.prog), in |-> FALSE, served |-> @.served]]
  /\ UNCHANGED <<solo, glmKey, turn, turnNo, client>>

\* ------------------------------------------------------ provider errors
\* An error text is the sequence of its pieces; a piece is told by the
\* substrings the sanitizers look for in its lower-cased form.  The request
\* URL of the international provider is one piece, holding the host, the
\* path and the api_token parameter.
Markers(piece) ==
  CASE piece = "ProxyError" -> {"proxyerror"}
    [] piece = "Max retries exceeded" -> {"max retries exceeded"}
    [] piece = "Connection aborted" -> {"connection aborted"}
    [] piece = "JSONDecodeError" -> {"jsondecodeerror"}
    [] piece = "NoneType is not subscriptable" -> {"nonetype", "not subscriptable"}
    [] piece = "no such host" -> {"no such host"}
    [] piece = "timed out" -> {"timed out"}
    [] piece = "Client.Timeout exceeded" -> {"timeout"}
    [] piece \in {"GET eodhd.com/api/fundamentals?api_token=SECRET",
                  "GET eodhd.com/api/fundamentals?api_token=***"} ->
         {"eodhd", "fundamentals", "api_token="}
    [] piece \in {"eodhd", "EODHD failed", "EODHD auth failed", "EODHD forbidden",
                  "EODHD symbol not found", "EODHD host not resolved", "EODHD request timed out",
                  "eodhd unknown error", "missing EODHD_API_KEY", "eodhd parsed series empty"} ->
         {"eodhd"}
    [] piece \in {"status=401", "status=403", "status=404", "status=500"} -> {piece}
    [] piece = "HTTP status=404" -> {"status=404"}
    [] OTHER -> {}

Contains(text, sub) == \E i \in 1..Len(text) : sub \in Markers(text[i])

\* The replacement of line 4798 without effect.
maskToken_kept(piece) == piece

\* Line 4798: (?i)(api_token=)[^&\s"]+ becomes api_token=***.
maskToken(piece) ==
  IF piece = "GET eodhd.com/api/fundamentals?api_token=SECRET"
  THEN "GET eodhd.com/api/fundamentals?api_token=***"
  ELSE piece

maskTokens(text) == [i \in 1..Len(text) |-> maskToken(text[i])]

sanitizeAkshareError(raw) ==
  IF raw = <<>> THEN <<"akshare unknown error">>
  ELSE IF Contains(raw, "proxyerror") \/ Contains(raw, "unable to connect to proxy")
       THEN <<"AkShare blocked by proxy">>
  ELSE IF Contains(raw, "max retries exceeded") THEN <<"AkShare retries exceeded">>
  ELSE IF Contains(raw, "remote end closed connection") \/ Contains(raw, "connection aborted")
       THEN <<"AkShare connection closed">>
  ELSE IF Contains(raw, "decode value starting with character '<'") \/ Contains(raw, "jsondecodeerror")
       THEN <<"AkShare unexpected page">>
  ELSE IF Contains(raw, "nonetype") /\ Contains(raw, "not subscriptable")
       THEN <<"AkShare empty structure">>
  ELSE IF Contains(raw, "name or service not known") \/ Contains(raw, "no such host")
       THEN <<"AkShare host not resolved">>
  ELSE IF Contains(raw, "timed out") \/ Contains(raw, "timeout") THEN <<"AkShare access timed out">>
  ELSE raw

sanitizeEODHDError(raw) ==
  IF raw = <<>> THEN <<"eodhd unknown error">>
  ELSE IF Contains(maskTokens(raw), "status=401") THEN <<"EODHD auth failed">>
  ELSE IF Contains(maskTokens(raw), "status=403") THEN <<"EODHD forbidden">>
  ELSE IF Contains(maskTokens(raw), "status=404") THEN <<"EODHD symbol not found">>
  ELSE IF Contains(maskTokens(raw), "no such host") \/ Contains(maskTokens(raw), "name or service not known")
       THEN <<"EODHD host not resolved">>
  ELSE IF Contains(maskTokens(raw), "timed out") \/ Contains(maskTokens(raw), "timeout")
       THEN <<"EODHD request timed out">>
  ELSE maskTokens(raw)

sanitizePipelineError(raw) ==
  IF Contains(raw, "eodhd") \/ Contains(raw, "api_token=") \/ Contains(raw, "fundamentals")
  THEN sanitizeEODHDError(raw)
  ELSE sanitizeAkshareError(raw)

RequestURL == "GET eodhd.com/api/fundamentals?api_token=SECRET"

\* How a call of the international provider fails: no key, the transport
\* (the error quotes the request URL), a status outside 2xx (the error
\* carries the body, which may quote the request), the decoding, no series.
EODHDFailures ==
  {[kind |-> "nokey", text |-> <<"missing EODHD_API_KEY">>],
   [kind |-> "transport", text |-> <<RequestURL, "connection refused">>],
   [kind |-> "transport", text |-> <<RequestURL, "no such host">>],
   [kind |-> "transport", text |-> <<RequestURL, "Client.Timeout exceeded">>],
   [kind |-> "status", text |-> <<"eodhd", "status=401", "Unauthenticated">>],
   [kind |-> "status", text |-> <<"eodhd", "status=403", RequestURL>>],
   [kind |-> "status", text |-> <<"eodhd", "status=404", "Not Found">>],
   [kind |-> "status", text |-> <<"eodhd", "status=500", RequestURL>>],
   [kind |-> "status", text |-> <<"eodhd", "status=500", "Internal Server Error">>],
   [kind |-> "decode", text |-> <<"invalid character">>],
   [kind |-> "empty", text |-> <<"eodhd parsed series empty">>]}

\* Lines 2984-3110: the error getUSFinanceFromEODHD returns.
getUSFinanceFromEODHD(f) ==
  IF f.kind \in {"transport", "status"} THEN sanitizeEODHDError(f.text) ELSE f.text

\* What the domestic bridge reports (stderr of the subprocess or the error
\* field of its output), the local dataset and the deep-analysis bridge.
AkshareErrors ==
  {<<>>, <<"ProxyError">>, <<"Max retries exceeded">>, <<"Connection aborted">>,
   <<"JSONDecodeError">>, <<"NoneType is not subscriptable">>, <<"no such host">>,
   <<"timed out">>, <<"KeyError: REPORT_DATE">>, <<"akshare finance empty">>,
   <<"HTTP status=404">>}

LocalErrors == {<<"local finance data not found">>}

ValueCellErrors == {<<"valuecell bridge error", "Traceback">>, <<"valuecell returned empty analysis">>}

\* Lines 827-833 and 1095-1102: the error of the international chain.
chainError(eodhdErr, akErr, hasFallbackCode) ==
  IF hasFallbackCode
  THEN <<"EODHD failed">> \o sanitizeEODHDError(eodhdErr) \o <<"AkShare fallback failed">>
         \o sanitizeAkshareError(akErr)
  ELSE sanitizeEODHDError(eodhdErr)

\* The response of a turn whose data stage failed with this text: the
\* answer, or (when the mode falls back to the model) a failure note.
Failed(kind, text, fallback, cited) ==
  [IdleTurn EXCEPT !.pc = "responded", !.status = 200,
                   !.answer = IF fallback THEN Answer("llm", <<"prose">>) ELSE Answer(kind, text),
                   !.notes = IF fallback THEN <<text>> ELSE <<>>,
                   !.citations = IF cited THEN <<Citation(kind, <<>>, text)>> ELSE <<>>]

ErrorStep(t) ==
  /\ turn.pc = "idle"
  /\ turn' = t
  /\ UNCHANGED <<storeVars, glmKey, turnNo, client, lockVars>>

\* The provider calls of a chain that failed (lines 814-839, 1077-1106 and
\* 1122): the international provider and then the domestic bridge for the
\* mapped code, the domestic bridge alone for a domestic target, and the
\* local dataset last in the finance stage.
chainCalls(overseas, mapped, localLast) ==
  IF overseas
  THEN <<[provider |-> "eodhd", code |-> <<>>]>>
         \o (IF mapped THEN <<[provider |-> "akshare", code |-> <<>>]>> ELSE <<>>)
  ELSE <<[provider |-> "akshare", code |-> <<>>]>>
         \o (IF localLast THEN <<[provider |-> "local", code |-> <<>>]>> ELSE <<>>)

\* Lines 696-706: the deep-analysis bridge failed.
ErrorDeep ==
  ErrorStep(Failed("deep_failed", <<"ValueCell failed">> \o client.deep, TRUE, TRUE))

\* Lines 842-845 and 913-925: a comparison target could not be fetched.
ErrorCompare ==
  ErrorStep([Failed("compare_insufficient",
                    <<"failure details">>
                      \o sanitizePipelineError(
                           IF client.overseas
                           THEN chainError(getUSFinanceFromEODHD(client.eodhd), client.akshare, client.mapped)
                           ELSE client.akshare),
                    client.fallback, FALSE)
               EXCEPT !.calls = chainCalls(client.overseas, client.mapped, FALSE)])

\* Lines 977-986: the ranking bridge failed.
ErrorRank ==
  ErrorStep(Failed("rank_failed", <<"AkShare query failed">> \o sanitizeAkshareError(client.akshare),
                   client.fallback, FALSE))

\* Lines 1029-1038: the sector bridge failed.
ErrorBoard ==
  ErrorStep(Failed("board_failed", <<"AkShare query failed">> \o sanitizeAkshareError(client.akshare),
                   client.fallback, FALSE))

\* Lines 1109-1140: the finance stage failed.
ErrorFinance ==
  ErrorStep([Failed("finance_failed",
                    IF client.overseas
                    THEN <<"EODHD query failed">>
                           \o sanitizePipelineError(
                                chainError(getUSFinanceFromEODHD(client.eodhd), client.akshare, client.mapped))
                    ELSE <<"AkShare error">> \o client.akshare \o <<"local fallback error">> \o client.local,
                    client.fallback, FALSE)
               EXCEPT !.calls = chainCalls(client.overseas, client.mapped, TRUE)])

\* Lines 3880-3890: the source page of a query that fails.
ErrorSourcePage ==
  ErrorStep([IdleTurn EXCEPT !.pc = "responded", !.status = 200,
               !.answer = Answer("source_page",
                                 <<"query failed">> \o sanitizeEODHDError(getUSFinanceFromEODHD(client.eodhd)))])

\* ------------------------------------------------------- provider series
\* A payload is the sequence of the rows a provider sends for one metric, in
\* the order the code walks them: [FY, Value, End].  A derived ratio keeps
\* its numerator and denominator: Value = <<n, d>> stands for n / d.
FactPoint(fy, value, unit) == [FY |-> fy, Value |-> value, Unit |-> unit]

\* appendMetric (lines 3045-3054, 3264-3277): the rows of the requested
\* years, every row when no year is requested.
appendMetric(rows, years, unit) ==
  [i \in 1..Len(SelectSeq(rows, LAMBDA r : years = {} \/ r.FY \in years)) |->
     FactPoint(SelectSeq(rows, LAMBDA r : years = {} \/ r.FY \in years)[i].FY,
               SelectSeq(rows, LAMBDA r : years = {} \/ r.FY \in years)[i].Value, unit)]

RECURSIVE insertByFY(_, _)
insertByFY(sorted, p) ==
  IF sorted = <<>> THEN <<p>>
  ELSE IF sorted[Len(sorted)].FY <= p.FY THEN Append(sorted, p)
  ELSE Append(insertByFY(SubSeq(sorted, 1, Len(sorted) - 1), p), sorted[Len(sorted)])

RECURSIVE sortByFY(_)
\* sort.Slice with less = FY < FY.  Points of one fiscal year keep some
\* order among themselves; the model keeps the order of arrival.
sortByFY(points) ==
  IF points = <<>> THEN <<>>
  ELSE insertByFY(sortByFY(SubSeq(points, 1, Len(points) - 1)), points[Len(points)])

RECURSIVE revenueYoY(_, _)
\* Lines 3089-3102 and 3293-3306: the change between neighbouring points.
revenueYoY(rev, i) ==
  IF i > Len(rev) THEN <<>>
  ELSE IF rev[i - 1].Value = 0 THEN revenueYoY(rev, i + 1)
  ELSE <<FactPoint(rev[i].FY, <<rev[i].Value - rev[i - 1].Value, rev[i - 1].Value>>, "ratio")>>
         \o revenueYoY(rev, i + 1)

\* Lines 3103-3105: RevenueYoY is set when it has a point.
withRevenueYoY(rev) ==
  IF Len(rev) > 1 /\ revenueYoY(rev, 2) # <<>>
  THEN [Revenue |-> rev, RevenueYoY |-> revenueYoY(rev, 2)]
  ELSE [Revenue |-> rev]

\* Lines 3040-3111: the series of the international provider.
eodhdSeries(rows, years) == withRevenueYoY(sortByFY(appendMetric(rows, years, "USD")))

\* Lines 2878-2896: the series of the domestic bridge, as it sends them.
akshareSeries(rows) == [Revenue |-> sortByFY(appendMetric(rows, {}, "CNY"))]

\* Lines 3258-3315: the series of the local dataset.
localSeries(rows, years) == withRevenueYoY(sortByFY(appendMetric(rows, years, "CNY")))

\* main.go lines 376-379: per fiscal year the point with the latest End, the
\* first of them in arrival order.
uniqByFY(rows) ==
  SelectSeq(rows,
            LAMBDA r : \E i \in 1..Len(rows) :
                         /\ rows[i] = r
                         /\ \A j \in 1..Len(rows) :
                              rows[j].FY = r.FY =>
                                \/ rows[j].End < r.End
                                \/ (rows[j].End = r.End /\ j >= i))

RECURSIVE dropRepeated(_)
dropRepeated(rows) ==
  IF rows = <<>> THEN <<>>
  ELSE IF \E j \in 1..(Len(rows) - 1) : rows[j] = rows[Len(rows)]
       THEN dropRepeated(SubSeq(rows, 1, Len(rows) - 1))
       ELSE Append(dropRepeated(SubSeq(rows, 1, Len(rows) - 1)), rows[Len(rows)])

\* main.go lines 362-383: the series of the SEC company-facts service.
companyFactsSeries(rows, years) ==
  [Revenue |-> sortByFY(appendMetric(dropRepeated(uniqByFY(rows)), years, "USD"))]

PayloadYears == {2021, 2022, 2023}

PayloadValues == {0, 100}

PayloadEnds == {1, 2}

PayloadRows == [FY : PayloadYears, Value : PayloadValues, End : PayloadEnds]

Payloads == UNION {[1..n -> PayloadRows] : n \in 1..MaxRows}

YearFilters == {{}, {2021, 2023}}

Fetch(provider, series) ==
  /\ turn.pc = "idle"
  /\ turn' = [IdleTurn EXCEPT !.pc = "fetched", !.dataSource = provider, !.series = series]
  /\ UNCHANGED <<storeVars, glmKey, turnNo, client, lockVars>>

FetchEODHD == Fetch("eodhd", eodhdSeries(client.rows, client.years))

FetchAkshare == Fetch("akshare", akshareSeries(client.rows))

FetchLocal == Fetch("local_dataset", localSeries(client.rows, client.years))

FetchCompanyFacts == Fetch("sec", companyFactsSeries(client.rows, client.years))

\* ------------------------------------------------------- derived metrics
\* finance.js.  The result of a division keeps numerator and denominator
\* (<<n, d>> stands for n / d) and the result of cagr keeps its operands
\* (<<end, start, n>> stands for (end / start)^(1/n) - 1).
RECURSIVE yoy(_, _)
yoy(series, i) ==
  IF i > Len(series) THEN <<>>
  ELSE IF series[i - 1].Value = 0 THEN yoy(series, i + 1)
  ELSE <<FactPoint(series[i].FY, <<series[i].Value - series[i - 1].Value, series[i - 1].Value>>, "ratio")>>
         \o yoy(series, i + 1)

\* The window taken from the head of the series.
slice_head(series, count) == SubSeq(series, 1, count)

\* series.slice(-count): the last count points.
slice(series, count) == SubSeq(series, Len(series) - count + 1, Len(series))

\* cagr returns a point or null; the model returns the sequence holding the
\* point, the empty sequence for null.
cagr(series, years) ==
  IF Len(series) < years + 1 THEN <<>>
  ELSE IF slice(series, years + 1)[1].Value <= 0 THEN <<>>
  ELSE IF slice(series, years + 1)[years + 1].FY - slice(series, years + 1)[1].FY <= 0 THEN <<>>
  ELSE <<FactPoint(slice(series, years + 1)[years + 1].FY,
                   <<slice(series, years + 1)[years + 1].Value, slice(series, years + 1)[1].Value,
                     slice(series, years + 1)[years + 1].FY - slice(series, years + 1)[1].FY>>,
                   "ratio")>>

CagrYears == 3

\* s.X?.length: the series under a key, none when the key is absent.
Metric(s, key) == IF key \in DOMAIN s THEN s[key] ELSE <<>>

\* new Map(b.map(x => [x.fy, x.value])).get(fy): the value of the last point
\* of the fiscal year; the model is asked only for a year the series holds.
lastValueAt(b, fy) ==
  b[CHOOSE i \in 1..Len(b) : b[i].FY = fy /\ \A j \in (i + 1)..Len(b) : b[j].FY # fy].Value

holdsYear(b, fy) == \E i \in 1..Len(b) : b[i].FY = fy

RECURSIVE ratio_zeroFilled(_, _, _)
\* A point of value 0 where the denominator is missing or zero.
ratio_zeroFilled(a, b, i) ==
  IF i > Len(a) THEN <<>>
  ELSE IF ~holdsYear(b, a[i].FY) \/ lastValueAt(b, a[i].FY) = 0
       THEN <<FactPoint(a[i].FY, <<0, 1>>, "ratio")>> \o ratio_zeroFilled(a, b, i + 1)
       ELSE <<FactPoint(a[i].FY, <<a[i].Value, lastValueAt(b, a[i].FY)>>, "ratio")>>
              \o ratio_zeroFilled(a, b, i + 1)

RECURSIVE ratio(_, _, _)
\* finance.js lines 24-31.
ratio(a, b, i) ==
  IF i > Len(a) THEN <<>>
  ELSE IF ~holdsYear(b, a[i].FY) \/ lastValueAt(b, a[i].FY) = 0 THEN ratio(a, b, i + 1)
  ELSE <<FactPoint(a[i].FY, <<a[i].Value, lastValueAt(b, a[i].FY)>>, "ratio")>> \o ratio(a, b, i + 1)

\* Lines 41-45 of getFinancialFacts.
withRevenueMetrics(s) ==
  IF Len(Metric(s, "Revenue")) = 0 THEN s
  ELSE IF cagr(s.Revenue, CagrYears) # <<>>
       THEN ("RevenueYoY" :> yoy(s.Revenue, 2)) @@ ("RevenueCAGR3Y" :> cagr(s.Revenue, CagrYears)) @@ s
       ELSE ("RevenueYoY" :> yoy(s.Revenue, 2)) @@ s

\* The ratio stored under the key of its numerator.
withRatio_overNumerator(s, key, numerator) ==
  IF Len(Metric(s, numerator)) > 0 /\ Len(Metric(s, "Revenue")) > 0
  THEN (numerator :> ratio(s[numerator], s.Revenue, 1)) @@ s
  ELSE s

\* Lines 46-54 of getFinancialFacts: one ratio to Revenue.
withRatio(s, key, numerator) ==
  IF Len(Metric(s, numerator)) > 0 /\ Len(Metric(s, "Revenue")) > 0
  THEN (key :> ratio(s[numerator], s.Revenue, 1)) @@ s
  ELSE s

getFinancialFacts(s) ==
  withRatio(withRatio(withRatio(withRevenueMetrics(s), "RAndDRatio", "RAndD"),
                      "OperatingMargin", "OperatingIncome"),
            "NetMargin", "NetIncome")

RECURSIVE grossMarginPoints(_, _, _)
\* main.go lines 395-402: rm[g.FY] is 0 for a year Revenue does not hold.
grossMarginPoints(gp, rev, i) ==
  IF i > Len(gp) THEN <<>>
  ELSE IF ~holdsYear(rev, gp[i].FY) \/ lastValueAt(rev, gp[i].FY) = 0
       THEN grossMarginPoints(gp, rev, i + 1)
  ELSE <<FactPoint(gp[i].FY, <<gp[i].Value, lastValueAt(rev, gp[i].FY)>>, "ratio")>>
         \o grossMarginPoints(gp, rev, i + 1)

\* main.go lines 392-405.
withGrossMargin(series) ==
  IF "GrossProfit" \in DOMAIN series /\ "Revenue" \in DOMAIN series
  THEN ("GrossMargin" :> grossMarginPoints(series.GrossProfit, series.Revenue, 1)) @@ series
  ELSE series

\* The Revenue series the company-facts service answers with: per fiscal
\* year of the range one value or none, in ascending order of fiscal year.
MetricYears == 2019..(2018 + MaxYears)

MetricValues == {-1000, 0, 900, 1000, 1200, 1331}

RECURSIVE seriesOf(_, _)
seriesOf(f, y) ==
  IF y \notin MetricYears THEN <<>>
  ELSE IF y \notin DOMAIN f THEN seriesOf(f, y + 1)
  ELSE <<FactPoint(y, f[y], "USD")>> \o seriesOf(f, y + 1)

CompanyFactsAnswers ==
  {seriesOf(f, 2019) : f \in UNION {[present -> MetricValues] : present \in SUBSET MetricYears}}

DeriveMetrics ==
  /\ turn.pc = "idle"
  /\ turn' = [IdleTurn EXCEPT !.pc = "derived", !.dataSource = "sec",
                              !.series = getFinancialFacts([Revenue |-> client.revenue])]
  /\ UNCHANGED <<storeVars, glmKey, turnNo, client, lockVars>>

\* The raw metrics the company-facts service holds for a company: Revenue
\* and another metric, each with a value or none per fiscal year.
RatioYears == 2021..(2020 + MaxRatioYears)

RECURSIVE pointsOf(_, _)
pointsOf(f, y) ==
  IF y \notin RatioYears THEN <<>>
  ELSE IF y \notin DOMAIN f THEN pointsOf(f, y + 1)
  ELSE <<FactPoint(y, f[y], "USD")>> \o pointsOf(f, y + 1)

RevenueAnswers ==
  {pointsOf(f, 2021) : f \in UNION {[present -> {0, 1000, 2000}] : present \in SUBSET RatioYears}}

NumeratorAnswers ==
  {pointsOf(f, 2021) : f \in UNION {[present -> {-300, 0, 500}] : present \in SUBSET RatioYears}}

\* The metrics index.js asks for (lines 185, 234); a metric without facts has
\* no key, a metric whose facts are all filtered out has an empty series.
RawMetrics(revenue, numerator, hasRAndD) ==
  IF hasRAndD
  THEN [Revenue |-> revenue, GrossProfit |-> numerator, NetIncome |-> numerator,
        OperatingIncome |-> <<>>, RAndD |-> numerator]
  ELSE [Revenue |-> revenue, GrossProfit |-> numerator, NetIncome |-> numerator,
        OperatingIncome |-> <<>>]

Derive(pc, series) ==
  /\ turn.pc = "idle"
  /\ turn' = [IdleTurn EXCEPT !.pc = pc, !.dataSource = "sec", !.series = series]
  /\ UNCHANGED <<storeVars, glmKey, turnNo, client, lockVars>>

\* handleCompanyFacts answers with the raw metrics and the gross margin.
CompanyFactsAnswer == Derive("company_facts", withGrossMargin(client.raw))

\* getFinancialFacts adds its metrics to that answer.
FinancialFacts == Derive("financial_facts", getFinancialFacts(withGrossMargin(client.raw)))

\* ------------------------------------------------ the accessor-level view
\* The store as its callers see it: every accessor and read handler called
\* with any argument, one call at a time (each body runs under its mutex).
\* A caller keeps what the last call returned; a returned slice is its
\* elements and whether it shares the backing array of the stored slice.
Slice(items, shared) == [items |-> items, shared |-> shared]

NoSlice == Slice(<<>>, FALSE)

\* getLastTargets returning lastTargets[sessionID] itself.
returnedTargets_alias(L, sessionID) == Slice(getLastTargets(L, sessionID), TRUE)

\* Lines 2617-2620: out := make(...); copy(out, items); return out.
returnedTargets(L, sessionID) == Slice(getLastTargets(L, sessionID), FALSE)

\* getMessages returning sessions[sessionID] itself.
returnedMessages_alias(S, sessionID) == Slice(getMessages(S, sessionID), TRUE)

\* Lines 418-421: out := make(...); copy(out, src); return out.
returnedMessages(S, sessionID) == Slice(getMessages(S, sessionID), FALSE)

\* Lines 427-430, the same for the report items.
returnedReportItems(R, sessionID) == Slice(getReportItems(R, sessionID), FALSE)

IdleProgress == [Stage |-> "idle", Done |-> TRUE, Progress |-> 100, UpdatedAt |-> "now"]

\* Lines 376-388: the record handleChatStatus writes to the response.
handleChatStatus(P, sessionID) ==
  IF getChatProgress(P, sessionID).UpdatedAt = "" THEN IdleProgress
  ELSE getChatProgress(P, sessionID)

CurrentStore ==
  [sessions |-> sessions, reports |-> reports, chatProgress |-> chatProgress,
   lastTargets |-> lastTargets]

\* What an accessor hands back to its caller.
ReturnOf(st, op) ==
  CASE op.fn = "getMessages" -> returnedMessages(st.sessions, op.sid)
    [] op.fn = "getReportItems" -> returnedReportItems(st.reports, op.sid)
    [] op.fn = "getLastTargets" -> returnedTargets(st.lastTargets, op.sid)
    [] op.fn \in {"handleChatStatus", "getChatProgress"} ->
         Slice(<<handleChatStatus(st.chatProgress, op.sid)>>, FALSE)
    [] OTHER -> NoSlice

\* A caller: the request it is serving (its kind, its arrival number when it
\* is a chat turn, the accessor calls still to make), its last call and what
\* that call returned.
NoCall ==
  [op |-> Call0("", ""), ret |-> NoSlice, mutated |-> FALSE,
   prog |-> <<>>, kind |-> "", n |-> 0]

Callers == {"c1"}

\* One call: the accessor's body is applied and its result kept by the caller.
StoreCall(c, op) ==
  /\ sessions' = ApplyOp(CurrentStore, op).sessions
  /\ reports' = ApplyOp(CurrentStore, op).reports
  /\ chatProgress' = ApplyOp(CurrentStore, op).chatProgress
  /\ lastTargets' = ApplyOp(CurrentStore, op).lastTargets
  /\ proc' = [proc EXCEPT ![c].op = op, ![c].ret = ReturnOf(CurrentStore, op),
                          ![c].mutated = FALSE,
                          ![c].prog = IF @ = <<>> THEN <<>> ELSE Tail(@)]
  /\ UNCHANGED <<storeMu, lastTargetsMu, solo, glmKey, turn, turnNo>>

ApiSessions == {"s1"}

ApiRoles == {"user", "assistant"}

ApiStages == {"received", "llm", "done", "warmup"}

T_Blank == Target(<<"noname">>, <<>>, "US")

T_CATL == Target(<<"300750", "SZ">>, <<"300750", "SZ">>, "CN")

T_Tencent == Target(<<"tengxun_konggu">>, <<"0700", "HK">>, "US")

\* The target lists handed to setLastTargets: none, one, two, a repeated
\* symbol, a target without symbol, and more than three.
ApiTargetLists ==
  {<<>>, <<T_TSLA>>, <<T_AAPL, T_TSLA>>, <<T_TSLA, T_TSLA, T_AAPL>>, <<T_Blank>>,
   <<T_Blank, T_CATL>>, <<T_CATL, T_AAPL, T_CATL, T_Tencent, T_TSLA>>}

ApiEnsureSession(c, s) ==
  /\ StoreCall(c, Call0("ensureSession", s))
  /\ UNCHANGED client

ApiAppendMessage(c, s, role) ==
  /\ Len(getMessages(sessions, s)) < MaxStored
  /\ StoreCall(c, Accessor("appendMessage", s, role, FALSE,
                           <<ToString(Len(getMessages(sessions, s)) + 1)>>))
  /\ UNCHANGED client

ApiAppendReportItem(c, s) ==
  /\ Len(getReportItems(reports, s)) < MaxStored
  /\ StoreCall(c, Accessor("appendReportItem", s, "", FALSE,
                  <<[Question |-> <<ToString(Len(getReportItems(reports, s)) + 1)>>,
                     Answer |-> <<"prose">>, Evidence |-> FALSE, DataSource |-> "glm_only"]>>))
  /\ UNCHANGED client

ApiGetMessages(c, s) ==
  /\ StoreCall(c, Call0("getMessages", s))
  /\ UNCHANGED client

ApiGetReportItems(c, s) ==
  /\ StoreCall(c, Call0("getReportItems", s))
  /\ UNCHANGED client

ApiSetChatProgress(c, s, stage, done) ==
  /\ StoreCall(c, Accessor("setChatProgress", s, stage, done, <<>>))
  /\ UNCHANGED client

ApiChatStatus(c, s) ==
  /\ StoreCall(c, Call0("handleChatStatus", s))
  /\ UNCHANGED client

ApiSetLastTargets(c, s, targets) ==
  /\ StoreCall(c, Accessor("setLastTargets", s, "", FALSE, targets))
  /\ UNCHANGED client

ApiGetLastTargets(c, s) ==
  /\ StoreCall(c, Call0("getLastTargets", s))
  /\ UNCHANGED client

\* What a caller writes into a slice it was handed.
Scribble(fn) ==
  CASE fn = "getMessages" -> [Role |-> "scribbled", Content |-> <<>>]
    [] fn = "getReportItems" ->
         [Question |-> <<>>, Answer |-> <<"scribbled">>, Evidence |-> FALSE, DataSource |-> "scribbled"]
    [] OTHER -> Target(<<"scribbled">>, <<"XXXX">>, "US")

\* out[0] = x on a slice that shares the stored backing array writes the
\* stored element too.
WriteThrough(m, sid, shared, x) ==
  IF shared /\ sid \in DOMAIN m /\ Len(m[sid]) > 0 THEN [m EXCEPT ![sid][1] = x] ELSE m

\* The caller overwrites the first element of the slice it was handed.
CallerMutates(c) ==
  /\ proc[c].op.fn \in {"getMessages", "getReportItems", "getLastTargets"}
  /\ proc[c].ret.items # <<>>
  /\ ~proc[c].mutated
  /\ LET fn == proc[c].op.fn
         sid == proc[c].op.sid
         sh == proc[c].ret.shared
     IN /\ proc' = [proc EXCEPT ![c].ret.items[1] = Scribble(fn), ![c].mutated = TRUE]
        /\ sessions' = IF fn = "getMessages" THEN WriteThrough(sessions, sid, sh, Scribble(fn)) ELSE sessions
        /\ reports' = IF fn = "getReportItems" THEN WriteThrough(reports, sid, sh, Scribble(fn)) ELSE reports
        /\ lastTargets' = IF fn = "getLastTargets" THEN WriteThrough(lastTargets, sid, sh, Scribble(fn))
                          ELSE lastTargets
  /\ UNCHANGED <<chatProgress, storeMu, lastTargetsMu, solo, glmKey, turn, turnNo>>

\* --------------------------------------------- the request-level view
\* The handlers as their callers see them: each request runs its accessor
\* calls in order, one call at a time, and requests of different callers
\* interleave between calls.  A client that serializes sends a chat turn on
\* a session only when no turn of that session is in progress.
TurnCallers == {"c1", "c2"}

TurnSessions == {"s1"}

ChatKinds == {"chat_followup", "chat_finance"}

InTurn(c, s) == proc[c].prog # <<>> /\ proc[c].kind \in ChatKinds /\ Head(proc[c].prog).sid = s

TurnInProgress(s) == \E c \in TurnCallers : InTurn(c, s)

\* A request arrives.
TurnStart(c, kind, s) ==
  /\ proc[c].prog = <<>>
  /\ client.asked < client.turns
  /\ (client.serial /\ kind \in ChatKinds) => ~TurnInProgress(s)
  /\ LET n == IF kind \in ChatKinds THEN client.sent + 1 ELSE 0
     IN /\ proc' = [proc EXCEPT ![c] = [NoCall EXCEPT !.prog = RequestOps(kind, s, n), !.kind = kind,
                                                     !.n = n]]
        /\ client' = [client EXCEPT !.sent = IF kind \in ChatKinds THEN @ + 1 ELSE @,
                                     !.asked = @ + 1]
  /\ UNCHANGED <<storeVars, storeMu, lastTargetsMu, solo, glmKey, turn, turnNo>>

\* The request's next accessor call.
TurnStep(c) ==
  /\ proc[c].prog # <<>>
  /\ StoreCall(c, Head(proc[c].prog))
  /\ UNCHANGED client

\* The code holding a returned slice writes into it.
TurnMutates(c) ==
  /\ CallerMutates(c)
  /\ UNCHANGED client

Unlocked == [writer |-> "", readers |-> {}]

InitStore ==
  /\ sessions = EmptyMap
  /\ reports = EmptyMap
  /\ chatProgress = EmptyMap
  /\ lastTargets = EmptyMap
  /\ storeMu = Unlocked
  /\ lastTargetsMu = Unlocked

InitServer ==
  /\ InitStore
  /\ glmKey \in BOOLEAN
  /\ turn = IdleTurn
  /\ turnNo = 0
  /\ proc = [s \in Sessions |-> IdleProc]
  /\ solo = [s \in Sessions |-> EmptyStore]

Init ==
  /\ InitServer
  /\ client = [flags |-> FlagPrefixes, opening |-> UserMessages, messages |-> DialogMessages,
               turns |-> MaxTurns]

InitDialog ==
  /\ InitServer
  /\ client = [flags |-> DialogFlags, opening |-> DialogOpenings, messages |-> DialogMessages,
               turns |-> MaxDialogTurns]

Next ==
  \/ ChatRequest
  \/ ChatRoute
  \/ ChatDeep
  \/ ChatCompare
  \/ ChatRank
  \/ ChatBoard
  \/ ChatFinance
  \/ ChatLLM
  \/ ChatFinish
  \/ ChatReturn

Spec == Init /\ [][Next]_vars

\* The same server with a client holding a conversation of several turns.
SpecDialog == InitDialog /\ [][Next]_vars

\* The server under concurrent requests on two sessions.
InitConc ==
  /\ InitStore
  /\ glmKey = TRUE
  /\ turn = IdleTurn
  /\ turnNo = 0
  /\ proc = [s \in Sessions |-> IdleProc]
  /\ solo = [s \in Sessions |-> EmptyStore]
  /\ client = [flags |-> {}, opening |-> {}, messages |-> {}, turns |-> MaxRequests]

NextConc ==
  \/ \E s \in Sessions, kind \in RequestKinds : ConcStart(s, kind)
  \/ \E s \in Sessions : ConcEnter(s)
  \/ \E s \in Sessions : ConcLeave(s)

SpecConc == InitConc /\ [][NextConc]_vars

\* The store under any sequence of accessor calls.
InitStoreCalls ==
  /\ InitStore
  /\ glmKey = TRUE
  /\ turn = IdleTurn
  /\ turnNo = 0
  /\ proc = [c \in Callers |-> NoCall]
  /\ solo = [s \in Sessions |-> EmptyStore]
  /\ client = [flags |-> {}, opening |-> {}, messages |-> {}, turns |-> 0]

NextStoreCalls ==
  \/ \E c \in Callers, s \in ApiSessions : ApiEnsureSession(c, s)
  \/ \E c \in Callers, s \in ApiSessions, role \in ApiRoles : ApiAppendMessage(c, s, role)
  \/ \E c \in Callers, s \in ApiSessions : ApiAppendReportItem(c, s)
  \/ \E c \in Callers, s \in ApiSessions : ApiGetMessages(c, s)
  \/ \E c \in Callers, s \in ApiSessions : ApiGetReportItems(c, s)
  \/ \E c \in Callers, s \in ApiSessions, stage \in ApiStages, done \in BOOLEAN :
       ApiSetChatProgress(c, s, stage, done)
  \/ \E c \in Callers, s \in ApiSessions : ApiChatStatus(c, s)
  \/ \E c \in Callers, s \in ApiSessions \cup {""}, targets \in ApiTargetLists :
       ApiSetLastTargets(c, s, targets)
  \/ \E c \in Callers, s \in ApiSessions : ApiGetLastTargets(c, s)
  \/ \E c \in Callers : TurnMutates(c)

SpecStore == InitStoreCalls /\ [][NextStoreCalls]_vars

\* The stages handleChat writes, a stage in other letters and with blanks
\* around it, and a stage of none of the switch's cases.
ProgressStages ==
  {"received", "memory", "route", "compare_plan", "compare_query", "compare_render",
   "stock_rank", "board", "finance_target", "finance_query", "finance_summary",
   "deep_plan", "deep_query", "deep_summary", "llm_summary", "llm", "done", "idle",
   " LLM ", "warmup"}

\* The progress tracker alone: any write, any status read.
NextProgress ==
  \/ \E c \in Callers, s \in Sessions, stage \in ProgressStages, done \in BOOLEAN :
       ApiSetChatProgress(c, s, stage, done)
  \/ \E c \in Callers, s \in Sessions : ApiChatStatus(c, s)

SpecProgress == InitStoreCalls /\ [][NextProgress]_vars

\* The failure paths of the data stages, for every way the providers fail.
InitErrors ==
  /\ InitStore
  /\ glmKey = TRUE
  /\ turn = IdleTurn
  /\ turnNo = 0
  /\ proc = [s \in Sessions |-> IdleProc]
  /\ solo = [s \in Sessions |-> EmptyStore]
  /\ \E e \in EODHDFailures, a \in AkshareErrors, l \in LocalErrors, d \in ValueCellErrors,
        overseas \in BOOLEAN, mapped \in BOOLEAN, fallback \in BOOLEAN :
       client = [flags |-> {}, opening |-> {}, messages |-> {}, turns |-> 1,
                 eodhd |-> e, akshare |-> a, local |-> l, deep |-> d,
                 overseas |-> overseas, mapped |-> mapped, fallback |-> fallback]

NextErrors ==
  \/ ErrorDeep
  \/ ErrorCompare
  \/ ErrorRank
  \/ ErrorBoard
  \/ ErrorFinance
  \/ ErrorSourcePage

SpecErrors == InitErrors /\ [][NextErrors]_vars

\* The resolver applied to every text of up to MaxWords words.
ResolverWords == {"300750.SZ", "TSLA", "yingshou", "duibi", "he", "nihao"}

ResolverTexts == UNION {[1..n -> ResolverWords] : n \in 1..MaxWords}

Resolve ==
  /\ turn.pc = "idle"
  /\ turn' = [IdleTurn EXCEPT !.pc = "resolved", !.message = client.text,
                              !.compareTargets = resolveCompareTargets(client.text, <<>>)]
  /\ UNCHANGED <<storeVars, glmKey, turnNo, client, lockVars>>

InitResolver ==
  /\ InitStore
  /\ glmKey = TRUE
  /\ turn = IdleTurn
  /\ turnNo = 0
  /\ proc = [s \in Sessions |-> IdleProc]
  /\ solo = [s \in Sessions |-> EmptyStore]
  /\ \E text \in ResolverTexts :
       client = [flags |-> {}, opening |-> {}, messages |-> {}, turns |-> 1, text |-> text]

NextResolver == Resolve

SpecResolver == InitResolver /\ [][NextResolver]_vars

\* The provider functions applied to every payload of up to MaxRows rows.
InitSeries ==
  /\ InitStore
  /\ glmKey = TRUE
  /\ turn = IdleTurn
  /\ turnNo = 0
  /\ proc = [s \in Sessions |-> IdleProc]
  /\ solo = [s \in Sessions |-> EmptyStore]
  /\ \E rows \in Payloads, years \in YearFilters :
       client = [flags |-> {}, opening |-> {}, messages |-> {}, turns |-> 1,
                 rows |-> rows, years |-> years]

NextSeries ==
  \/ FetchEODHD
  \/ FetchAkshare
  \/ FetchLocal
  \/ FetchCompanyFacts

SpecSeries == InitSeries /\ [][NextSeries]_vars

\* The derived metrics of every answer of the company-facts service.
InitMetrics ==
  /\ InitStore
  /\ glmKey = TRUE
  /\ turn = IdleTurn
  /\ turnNo = 0
  /\ proc = [s \in Sessions |-> IdleProc]
  /\ solo = [s \in Sessions |-> EmptyStore]
  /\ \E revenue \in CompanyFactsAnswers :
       client = [flags |-> {}, opening |-> {}, messages |-> {}, turns |-> 1, revenue |-> revenue]

NextMetrics == DeriveMetrics

SpecMetrics == InitMetrics /\ [][NextMetrics]_vars

\* The ratio metrics of every answer of the company-facts service.
InitRatios ==
  /\ InitStore
  /\ glmKey = TRUE
  /\ turn = IdleTurn
  /\ turnNo = 0
  /\ proc = [s \in Sessions |-> IdleProc]
  /\ solo = [s \in Sessions |-> EmptyStore]
  /\ \E revenue \in RevenueAnswers, numerator \in NumeratorAnswers, hasRAndD \in BOOLEAN :
       client = [flags |-> {}, opening |-> {}, messages |-> {}, turns |-> 1,
                 raw |-> RawMetrics(revenue, numerator, hasRAndD)]

NextRatios ==
  \/ CompanyFactsAnswer
  \/ FinancialFacts

SpecRatios == InitRatios /\ [][NextRatios]_vars

\* The route decision of a professional-mode turn without other flags, over
\* every text of up to MaxRouteWords words, every answer of the model
\* classifier and every remembered target list.
RouteWords ==
  {"nihao", "yingshou", "agu_paihang", "bankuai_zoushi", "he", "tamen", "TSLA", "300750.SZ"}

RouteTexts == UNION {[1..n -> RouteWords] : n \in 1..MaxRouteWords}

RememberedTargets == {<<>>, <<T_TSLA>>, <<T_TSLA, T_CATL>>}

\* Lines 606-622: the heuristic and the model classifier, reconciled.
RouteReconcile ==
  /\ turn.pc = "idle"
  /\ turn' = [IdleTurn EXCEPT !.pc = "reconciled", !.professionalMode = TRUE,
                              !.message = client.text, !.apiKey = glmKey,
                              !.decision = reconcileDecision(client.text, glmKey, client.modelOut)]
  /\ UNCHANGED <<storeVars, glmKey, turnNo, client, lockVars>>

\* Lines 623-636: the promotion pass over the reconciled decision.
RoutePromote ==
  /\ turn.pc = "reconciled"
  /\ turn' = [turn EXCEPT !.pc = "routed",
                          !.decision = decideRoute(turn, client.modelOut, client.last)]
  /\ UNCHANGED <<storeVars, glmKey, turnNo, client, lockVars>>

InitRoute ==
  /\ InitStore
  /\ glmKey \in BOOLEAN
  /\ turn = IdleTurn
  /\ turnNo = 0
  /\ proc = [s \in Sessions |-> IdleProc]
  /\ solo = [s \in Sessions |-> EmptyStore]
  /\ \E text \in RouteTexts, modelOut \in {<<>>} \cup {<<d>> : d \in RawDecisions},
        last \in RememberedTargets :
       client = [flags |-> {}, opening |-> {}, messages |-> {}, turns |-> 1,
                 text |-> text, modelOut |-> modelOut, last |-> last]

NextRoute ==
  \/ RouteReconcile
  \/ RoutePromote

SpecRoute == InitRoute /\ [][NextRoute]_vars

\* The progress tracker under a clock: any write at any later time.  The clock
\* of the process never runs backwards.
ClockStages == {"received", "route", "llm", "done"}

ClockSteps == {0, 400, 1000}

TimedWrite ==
  /\ \E s \in Sessions, stage \in ClockStages, done \in BOOLEAN, step \in ClockSteps :
       /\ client.now + step <= MaxClock
       /\ client' = [client EXCEPT !.now = @ + step]
       /\ chatProgress' = setChatProgressAt(chatProgress, s, stage, done, client.now + step)
       /\ turn' = [IdleTurn EXCEPT !.pc = "progress", !.sid = s, !.log = <<stage>>]
  /\ UNCHANGED <<sessions, reports, lastTargets, glmKey, turnNo, lockVars>>

InitClock ==
  /\ InitStore
  /\ glmKey = TRUE
  /\ turn = IdleTurn
  /\ turnNo = 0
  /\ proc = [s \in Sessions |-> IdleProc]
  /\ solo = [s \in Sessions |-> EmptyStore]
  /\ \E now \in ClockSteps :
       client = [flags |-> {}, opening |-> {}, messages |-> {}, turns |-> 1, now |-> now]

NextClock == TimedWrite

SpecClock == InitClock /\ [][NextClock]_vars

\* ------------------------------------------------ the comparison chart
ChartMetrics == {"Revenue", "NetIncome", "OperatingIncome", "RevenueYoY"}

PreferredMetrics == <<"Revenue", "NetIncome", "OperatingIncome">>

\* normalizeMetricList: the allowed metrics, each once, in the order asked;
\* the three preferred metrics when none is left.
RECURSIVE dedupeAllowed(_, _)
dedupeAllowed(metrics, seen) ==
  IF metrics = <<>> THEN <<>>
  ELSE IF Head(metrics) \notin ChartMetrics \/ Head(metrics) \in seen
  THEN dedupeAllowed(Tail(metrics), seen)
  ELSE <<Head(metrics)>> \o dedupeAllowed(Tail(metrics), seen \cup {Head(metrics)})

normalizeMetricList(metrics) ==
  LET out == dedupeAllowed(metrics, {}) IN
  IF Len(out) = 0 THEN PreferredMetrics ELSE out

\* Lines 1649-1657: the loop over the preferred metrics.  The break leaves the
\* inner loop only, so every later preferred metric that was asked for
\* replaces the one chosen before it.
RECURSIVE chartMetric(_, _, _)
chartMetric(metrics, i, metric) ==
  IF i > Len(PreferredMetrics) THEN metric
  ELSE chartMetric(metrics, i + 1,
                   IF \E k \in 1..Len(metrics) : metrics[k] = PreferredMetrics[i]
                   THEN PreferredMetrics[i] ELSE metric)

\* buildCompareChart: <<>> for nil, else the chart with its metric and the
\* names of the results that hold points of that metric.
buildCompareChart(results, metrics) ==
  IF Len(results) = 0 THEN <<>>
  ELSE LET list == normalizeMetricList(metrics)
           metric == chartMetric(list, 1, list[1])
           series == SelectSeq(results, LAMBDA r : metric \in r.Series)
       IN IF Len(series) = 0 THEN <<>>
          ELSE <<[metric |-> metric, series |-> [k \in 1..Len(series) |-> series[k].Name]]>>

\* The metric lists a plan can ask for, and the results of a comparison with
\* the metrics each result holds points of.
AskedMetrics == ChartMetrics \cup {"GrossMargin"}

MetricLists == UNION {[1..n -> AskedMetrics] : n \in 0..MaxMetrics}

ChartResults ==
  {<<>>,
   <<[Name |-> "TSLA", Series |-> ChartMetrics]>>,
   <<[Name |-> "TSLA", Series |-> ChartMetrics], [Name |-> "300750.SZ", Series |-> {"Revenue"}]>>,
   <<[Name |-> "TSLA", Series |-> {"Revenue", "NetIncome"}],
     [Name |-> "300750.SZ", Series |-> ChartMetrics]>>}

BuildChart ==
  /\ turn.pc = "idle"
  /\ turn' = [IdleTurn EXCEPT !.pc = "charted", !.results = client.results,
                              !.chart = buildCompareChart(client.results, client.metrics)]
  /\ UNCHANGED <<storeVars, glmKey, turnNo, client, lockVars>>

InitChart ==
  /\ InitStore
  /\ glmKey = TRUE
  /\ turn = IdleTurn
  /\ turnNo = 0
  /\ proc = [s \in Sessions |-> IdleProc]
  /\ solo = [s \in Sessions |-> EmptyStore]
  /\ \E metrics \in MetricLists, results \in ChartResults :
       client = [flags |-> {}, opening |-> {}, messages |-> {}, turns |-> 1,
                 metrics |-> metrics, results |-> results]

NextChart == BuildChart

SpecChart == InitChart /\ [][NextChart]_vars

\* Two runs of the resolver on one message and one list of planner hints,
\* each under a walk of the alias map of its own.
AliasWords == {"tengxun", "pingguo", "texila", "TSLA", "he", "yingshou"}

AliasTexts == UNION {[1..n -> AliasWords] : n \in 1..MaxWords}

PlannerHints == {<<>>, <<[k |-> "ticker", v |-> <<"AAPL">>]>>}

ResolveFirstRun ==
  /\ turn.pc = "idle"
  /\ \E walk \in AliasWalks :
       turn' = [IdleTurn EXCEPT
                  !.pc = "first_run", !.message = client.text,
                  !.compareTargets =
                     Prefix(resolveCompareTargetsWalk(client.text, client.hints, walk),
                            MaxCompareTargets),
                  !.financeTarget = resolveFinancialTargetWalk(client.text, walk)]
  /\ UNCHANGED <<storeVars, glmKey, turnNo, client, lockVars>>

ResolveSecondRun ==
  /\ turn.pc = "first_run"
  /\ \E walk \in AliasWalks :
       turn' = [turn EXCEPT
                  !.pc = "second_run",
                  !.newTargets =
                     Prefix(resolveCompareTargetsWalk(client.text, client.hints, walk),
                            MaxCompareTargets),
                  !.carried = resolveFinancialTargetWalk(client.text, walk)]
  /\ UNCHANGED <<storeVars, glmKey, turnNo, client, lockVars>>

InitAliases ==
  /\ InitStore
  /\ glmKey = TRUE
  /\ turn = IdleTurn
  /\ turnNo = 0
  /\ proc = [s \in Sessions |-> IdleProc]
  /\ solo = [s \in Sessions |-> EmptyStore]
  /\ \E text \in AliasTexts, hints \in PlannerHints :
       client = [flags |-> {}, opening |-> {}, messages |-> {}, turns |-> 1,
                 text |-> text, hints |-> hints]

NextAliases ==
  \/ ResolveFirstRun
  \/ ResolveSecondRun

SpecAliases == InitAliases /\ [][NextAliases]_vars

\* The server under requests of two callers on one session, the client
\* serializing the chat turns of a session or not.
InitTurns ==
  /\ InitStore
  /\ glmKey = TRUE
  /\ turn = IdleTurn
  /\ turnNo = 0
  /\ proc = [c \in TurnCallers |-> NoCall]
  /\ solo = [s \in Sessions |-> EmptyStore]
  /\ \E serial \in BOOLEAN :
       client = [flags |-> {}, opening |-> {}, messages |-> {}, turns |-> MaxAsked,
                 serial |-> serial, sent |-> 0, asked |-> 0]

NextTurns ==
  \/ \E c \in TurnCallers, kind \in RequestKinds, s \in TurnSessions : TurnStart(c, kind, s)
  \/ \E c \in TurnCallers : TurnStep(c)
  \/ \E c \in TurnCallers : TurnMutates(c)

SpecTurns == InitTurns /\ [][NextTurns]_vars

\* ------------------------------------------------------------- properties
LogHas(stage) == \E i \in 1..Len(turn.log) : turn.log[i] = stage

LogHasAny(stages) == \E i \in 1..Len(turn.log) : turn.log[i] \in stages

DataProviders == {"akshare", "eodhd", "local", "valuecell"}

CompareStages == {"compare_plan", "compare_query", "compare_render", "llm_summary"}

DeepStages == {"deep_plan", "deep_query", "deep_summary"}

OtherDataStages == {"stock_rank", "board", "finance_target", "finance_query", "finance_summary"}

NoFlags == ~turn.deepMode /\ ~turn.professionalMode /\ ~turn.skillCompare

Accepted == turn.pc \notin {"idle"} /\ turn.status # 400

Answered == turn.pc = "responded" /\ turn.status = 200

\* C1: within one turn the progress percentages of the successive progress
\* writes made before the final done write never decrease.
C1_ProgressNonDecreasing ==
  \A i \in 1..Len(turn.log), j \in 1..Len(turn.log) :
    (i < j /\ turn.log[j] # "done")
      => progressByStage(turn.log[i], FALSE) <= progressByStage(turn.log[j], FALSE)

\* C3: a turn whose comparison stage resolved fewer than two targets makes no
\* fetch for the comparison, produces no comparison table, chart or evidence,
\* and carries the insufficient-targets message as its answer or as a
\* data-failure note.
C3_InsufficientTargets ==
  (turn.pc \notin {"idle", "route", "deep", "compare"} /\ LogHas("compare_plan")
     /\ Len(turn.compareTargets) < 2)
    => /\ ~LogHasAny({"compare_query", "compare_render", "llm_summary"})
       /\ turn.results = <<>>
       /\ turn.table # "compare" /\ turn.chart # "compare" /\ turn.evidence # "compare"
       /\ \A i \in 1..Len(turn.citations) :
            turn.citations[i].title \notin {"akshare_query", "eodhd_query"}
       /\ turn.answer.kind \notin {"compare_summary", "compare_fallback"}
       /\ \/ \E i \in 1..Len(turn.notes) : turn.notes[i] = "insufficient_targets"
          \/ turn.answer.kind = "insufficient_targets"

C3_Witness ==
  /\ Answered
  /\ LogHas("compare_plan")
  /\ Len(turn.compareTargets) = 1
  /\ turn.answer.kind = "insufficient_targets"

\* The series fetched in this turn through the fallback chain: the
\* international provider failed and the domestic one answered for the mapped
\* code.
FellBack(r) == turn.professionalMode /\ r.Target.Market = "US" /\ r.SourceTag # "eodhd"

FetchedSeries == Range(turn.results) \cup Range(turn.financeSeries)

CitedWith(r, noteCode) ==
  \E i \in 1..Len(turn.citations) :
    /\ turn.citations[i].title \in {"akshare_query", "akshare_finance_query"}
    /\ turn.citations[i].code = r.QueryCode
    /\ turn.citations[i].noteCode = noteCode

C6_TurnAlwaysAnswered ==
  (turn.pc = "responded" /\ turn.status # 400)
    => LET msgs == getMessages(sessions, turn.sid)
           items == getReportItems(reports, turn.sid)
           q == <<ToString(turnNo + 1)>>
       IN /\ turn.status = 200
          /\ turn.answer.text # <<>>
          /\ Len(msgs) >= 2
          /\ msgs[Len(msgs)] = [Role |-> "assistant", Content |-> turn.answer.text]
          /\ msgs[Len(msgs) - 1] = [Role |-> "user", Content |-> q]
          /\ Cardinality({i \in 1..Len(items) : items[i].Question = q}) = 1
          /\ items[Len(items)].Question = q
          /\ items[Len(items)].Answer = turn.answer.text
          /\ getChatProgress(chatProgress, turn.sid).Done
          /\ getChatProgress(chatProgress, turn.sid).Progress = 100

C6_Witness ==
  /\ Answered
  /\ turn.answer.kind \in {"model_unavailable", "model_not_configured"}
  /\ turn.answer.text # <<>>

\* C7: every external call of a turn returns within a deadline, so no accepted
\* turn is left waiting on a provider that never answers.
C7_NoCallWithoutDeadline == turn.pc # "blocked"

C9_FlagsForceTheirRoute ==
  (Accepted /\ turn.pc # "route")
    => /\ turn.deepMode => turn.decision.Route = "deep" /\ ~LogHasAny(CompareStages \cup OtherDataStages)
       /\ turn.skillCompare => turn.decision.Route = "compare" /\ ~LogHasAny(DeepStages \cup OtherDataStages)

\* C9 amended: the deep flag gives route deep in every combination; the
\* compare-skill flag gives route compare when the deep flag is absent; a turn
\* with either flag never runs the ranking, board or finance pipeline; a deep
\* turn runs the comparison pipeline only when the compare-skill flag is also
\* set and the deep stage produced no answer; a turn without the deep flag
\* never runs the deep pipeline.
C9_DeepFirstThenSkill ==
  (Accepted /\ turn.pc # "route")
    => /\ turn.deepMode => turn.decision.Route = "deep"
       /\ (turn.skillCompare /\ ~turn.deepMode) => turn.decision.Route = "compare"
       /\ (turn.deepMode \/ turn.skillCompare) => ~LogHasAny(OtherDataStages)
       /\ (turn.deepMode /\ LogHasAny(CompareStages))
            => turn.skillCompare /\ ~turn.valueCellSucceeded
       /\ ~turn.deepMode => ~LogHasAny(DeepStages)

C9_Witness ==
  /\ Answered
  /\ turn.deepMode /\ turn.skillCompare
  /\ LogHas("deep_query") /\ LogHas("compare_plan")

RouteSet == {"compare", "finance", "stock_rank", "board", "deep", "none"}

C4_BroadQueryIgnoresLastTargets ==
  (Accepted /\ isBroadCategoryQuery(turn.words) /\ ~hasExplicitTargets(turn.words)
     /\ turn.remembered >= 2)
    => /\ turn.carried = <<>>
       /\ turn.decision.Reason \notin {"opportunistic_memory_compare", "opportunistic_memory_finance"}
       /\ ~turn.fromMemory

\* What a session can see of the four maps.
SessDataOf(st, s) ==
  [known |-> s \in DOMAIN st.sessions,
   messages |-> getMessages(st.sessions, s),
   items |-> getReportItems(st.reports, s),
   progress |-> getChatProgress(st.chatProgress, s),
   targets |-> getLastTargets(st.lastTargets, s)]

SessData(s) ==
  SessDataOf([sessions |-> sessions, reports |-> reports,
              chatProgress |-> chatProgress, lastTargets |-> lastTargets], s)

MutexOf(map) == IF map = "lastTargets" THEN lastTargetsMu ELSE storeMu

InBody(s) == proc[s].in

BodyAccess(s) == AccessOf(Head(proc[s].prog).fn)

HoldsLock(s) ==
  InBody(s) =>
    LET a == BodyAccess(s)
        m == MutexOf(a.map)
    IN IF a.write THEN m.writer = s ELSE (s \in m.readers \/ m.writer = s)

NoRace ==
  \A a \in Sessions, b \in Sessions :
    (a # b /\ InBody(a) /\ InBody(b) /\ BodyAccess(a).map = BodyAccess(b).map)
      => (~BodyAccess(a).write /\ ~BodyAccess(b).write)

Position(s) == <<proc[s].served, proc[s].in, Len(proc[s].prog)>>

\* C2: under every interleaving of requests on different sessions, an
\* accessor's body runs only while its request holds the mutex of the map
\* it touches (the writer's side for a write), no two bodies touch one map
\* at once unless both read, a step of a request of one session leaves every
\* other session's messages, report items, progress record and remembered
\* targets as they were, and whenever a session has no request running its
\* data is what its own requests produce when run alone.
C2_LockedAndIsolated ==
  /\ [](/\ \A s \in Sessions : HoldsLock(s)
        /\ NoRace
        /\ \A s \in Sessions : proc[s].prog = <<>> => SessData(s) = SessDataOf(solo[s], s))
  /\ [][\A a \in Sessions, b \in Sessions :
          (a # b /\ Position(a)' # Position(a)) => SessData(b)' = SessData(b)]_vars

\* Both sessions are inside a chat turn, one of them in the body of a write
\* while the other has already written its own progress.
C2_Witness ==
  /\ InBody("s1")
  /\ BodyAccess("s1").write
  /\ Head(proc["s1"].prog).fn = "setLastTargets"
  /\ proc["s2"].prog # <<>>
  /\ getChatProgress(chatProgress, "s2").Progress \in 12..99
  /\ Len(getMessages(sessions, "s1")) >= 1
  /\ Len(getMessages(sessions, "s2")) >= 1

\* ------------------------------------------------------------------ C11
\* The symbols of the targets handed to setLastTargets that it can keep.
KeptSymbols(targets) == {targets[i].Symbol : i \in 1..Len(targets)} \ {<<>>}

\* The call a step made, when the step is a call.
StepOp(c) == IF proc'[c] # proc[c] /\ ~proc'[c].mutated THEN proc'[c].op ELSE Call0("", "")

\* C11: each session's LastTargets holds at most 3 entries (and is never
\* stored empty); a setLastTargets call that resolved at least one target
\* replaces the whole list by the first three distinct targets handed in, in
\* order, keeping nothing else of the previous list; a call with no target,
\* every other accessor call, and a caller writing into the slice that
\* getLastTargets returned, leave the list as it was.
C11_OverwrittenNeverMerged ==
  /\ [](\A s \in DOMAIN lastTargets : s # "" /\ Len(lastTargets[s]) \in 1..3)
  /\ [][\A c \in Callers, s \in ApiSessions \cup {""} :
          LET op == StepOp(c)
              old == getLastTargets(lastTargets, s)
              new == getLastTargets(lastTargets', s)
              given == enrichTargetNames(op.body)
          IN IF op.fn = "setLastTargets" /\ op.sid = s /\ s # "" /\ KeptSymbols(op.body) # {}
             THEN /\ Len(new) = (IF Cardinality(KeptSymbols(op.body)) < 3
                                 THEN Cardinality(KeptSymbols(op.body)) ELSE 3)
                  /\ \A i \in 1..Len(new) :
                       \E j \in 1..Len(given) :
                         /\ new[i] = given[j]
                         /\ \A k \in 1..(j - 1) : given[k].Symbol # given[j].Symbol
                         /\ Cardinality(KeptSymbols(SubSeq(given, 1, j))) = i
             ELSE new = old]_vars

\* The list holds the first three distinct targets of a longer list handed
\* in, and the caller has written into the slice a later read returned.
C11_Witness ==
  /\ getLastTargets(lastTargets, "s1") = <<T_CATL, T_AAPL, T_Tencent>>
  /\ proc["c1"].op.fn = "getLastTargets"
  /\ proc["c1"].mutated
  /\ proc["c1"].ret.items = <<Scribble("getLastTargets"), T_AAPL, T_Tencent>>

\* ------------------------------------------------------------------ C12
GrewAtEnd(old, new) ==
  /\ Len(new) \in {Len(old), Len(old) + 1}
  /\ SubSeq(new, 1, Len(old)) = old

Assistants(s) ==
  {i \in 1..Len(getMessages(sessions, s)) : getMessages(sessions, s)[i].Role = "assistant"}

\* The turns of session s that have not yet stored their report item.
BeforeReport(s) ==
  {c \in TurnCallers :
     InTurn(c, s) /\ \E i \in 1..Len(proc[c].prog) : proc[c].prog[i].fn = "appendReportItem"}

\* C12: for every session the message list and the report list change only
\* by one entry appended at the end, whatever runs (a chat turn, a history,
\* session or status read, a caller writing into the slice getMessages or
\* getReportItems returned); every turn stores exactly one report item, and
\* stores it after its answer.
C12_AppendOnly ==
  /\ [][\A s \in TurnSessions :
          /\ GrewAtEnd(getMessages(sessions, s), getMessages(sessions', s))
          /\ GrewAtEnd(getReportItems(reports, s), getReportItems(reports', s))]_vars
  /\ [](\A s \in TurnSessions :
          /\ Len(getReportItems(reports, s)) = client.sent - Cardinality(BeforeReport(s))
          /\ Len(getReportItems(reports, s)) <= Cardinality(Assistants(s))
          /\ \A i \in 1..Len(getReportItems(reports, s)) :
               \E j \in Assistants(s) :
                 getMessages(sessions, s)[j].Content = getReportItems(reports, s)[i].Answer)

\* A turn is complete, a later history read returned its two messages, and
\* the reader has written into the slice it was handed.
C12_Witness ==
  /\ Len(getReportItems(reports, "s1")) = 1
  /\ ~TurnInProgress("s1")
  /\ \E c \in TurnCallers :
       /\ proc[c].op.fn = "getMessages"
       /\ proc[c].kind = "history"
       /\ proc[c].mutated
       /\ Len(proc[c].ret.items) = 2
       /\ proc[c].ret.items # getMessages(sessions, "s1")
       /\ getMessages(sessions, "s1")[1].Role = "user"

\* ------------------------------------------------------------------ C13
\* The history of s is user 1, assistant 1, user 2, assistant 2, ... and the
\* report items are those of turns 1, 2, ... in that order.
InArrivalOrder(s) ==
  /\ \A i \in 1..Len(getMessages(sessions, s)) :
       IF i % 2 = 1
       THEN /\ getMessages(sessions, s)[i].Role = "user"
            /\ getMessages(sessions, s)[i].Content = <<ToString((i + 1) \div 2)>>
       ELSE getMessages(sessions, s)[i].Role = "assistant"
  /\ \A k \in 1..Len(getReportItems(reports, s)) :
       getReportItems(reports, s)[k].Question = <<ToString(k)>>

\* The history of s shows a question that has no answer yet.
Unanswered(s) ==
  Cardinality({i \in 1..Len(getMessages(sessions, s)) : getMessages(sessions, s)[i].Role = "user"})
    > Cardinality(Assistants(s))

\* The status read of this step answered done=true.
PolledDone(c, s) ==
  /\ StepOp(c).fn = "getChatProgress"
  /\ StepOp(c).sid = s
  /\ proc'[c].ret.items[1].Done

\* C13: when the client sends each turn of a session only after the response
\* to the previous one, the history and the report items of the session are
\* in arrival order and a status poll answers done=true only when no turn of
\* the session is in progress (its question stored, its answer not yet).
C13_SerializedTurnsInOrder ==
  /\ [](client.serial => \A s \in TurnSessions : InArrivalOrder(s))
  /\ [][client.serial =>
          \A c \in TurnCallers, s \in TurnSessions : PolledDone(c, s) => ~Unanswered(s)]_vars

\* ------------------------------------------------------------------ C14
\* The stage -> percent table.
PercentTable ==
  [received |-> 5, memory |-> 12, route |-> 20, compare_plan |-> 30, compare_query |-> 45,
   compare_render |-> 62, stock_rank |-> 55, board |-> 55, finance_target |-> 35,
   finance_query |-> 58, finance_summary |-> 72, deep_plan |-> 28, deep_query |-> 62,
   deep_summary |-> 86, llm_summary |-> 82, llm |-> 88, done |-> 100, idle |-> 100]

PercentOf(stage) ==
  IF toLower(stage) \in DOMAIN PercentTable THEN PercentTable[toLower(stage)] ELSE 15

WellFormedProgress(r) == r.Progress = (IF r.Done THEN 100 ELSE PercentOf(r.Stage))

\* C14: every progress record a status reader can observe has progress 100
\* when done is true and the table value of its stage otherwise (15 for a
\* stage that is not in the table); a reader polling a session without any
\* progress write observes stage idle, done=true, progress 100, and a status
\* read stores nothing.
C14_ProgressFromTable ==
  /\ [](\A s \in Sessions :
          /\ WellFormedProgress(handleChatStatus(chatProgress, s))
          /\ s \notin DOMAIN chatProgress =>
               /\ handleChatStatus(chatProgress, s).Stage = "idle"
               /\ handleChatStatus(chatProgress, s).Done
               /\ handleChatStatus(chatProgress, s).Progress = 100
          /\ \A c \in Callers :
               proc[c].op.fn = "handleChatStatus" => WellFormedProgress(proc[c].ret.items[1]))
  /\ [][\A c \in Callers : StepOp(c).fn = "handleChatStatus" => chatProgress' = chatProgress]_vars

\* A status read observed a stage that is not in the table, not done, and
\* the other session has no record.
C14_Witness ==
  /\ "s2" \notin DOMAIN chatProgress
  /\ proc["c1"].op.fn = "handleChatStatus"
  /\ proc["c1"].op.sid = "s1"
  /\ proc["c1"].ret.items[1].Stage = "warmup"
  /\ proc["c1"].ret.items[1].Progress = 15
  /\ ~proc["c1"].ret.items[1].Done

\* ------------------------------------------------------------------ C15
\* The failure texts of the response: the answer of a failed data stage, the
\* failure notes and the notes of the failure citations.
FailureTexts ==
  (IF turn.answer.kind \in {"llm", ""} THEN {} ELSE {turn.answer.text})
    \cup {turn.notes[i] : i \in 1..Len(turn.notes)}
    \cup {turn.citations[i].noteCode : i \in 1..Len(turn.citations)}

\* The fixed user-facing messages, and the fixed words the handlers put
\* around them.
SanitizedVocabulary ==
  {"akshare unknown error", "AkShare blocked by proxy", "AkShare retries exceeded",
   "AkShare connection closed", "AkShare unexpected page", "AkShare empty structure",
   "AkShare host not resolved", "AkShare access timed out",
   "eodhd unknown error", "EODHD auth failed", "EODHD forbidden", "EODHD symbol not found",
   "EODHD host not resolved", "EODHD request timed out"}

HandlerWords ==
  {"ValueCell failed", "failure details", "AkShare query failed", "EODHD query failed",
   "AkShare error", "local fallback error", "query failed", "EODHD failed",
   "AkShare fallback failed"}

\* C15: every provider-failure text of a response is made of the fixed
\* sanitized messages, and the sanitizers return no raw error text as it
\* came.
C15_OnlySanitizedMessages ==
  /\ sanitizeAkshareError(client.akshare) # client.akshare
  /\ sanitizeEODHDError(client.eodhd.text) # client.eodhd.text
  /\ turn.pc = "responded" =>
       \A text \in FailureTexts :
         \A i \in 1..Len(text) : text[i] \in SanitizedVocabulary \cup HandlerWords

\* ------------------------------------------------------------------ C16
HasSecret(text) == \E i \in 1..Len(text) : text[i] = RequestURL

OnlyDomesticCode(text) ==
  /\ \E i \in 1..Len(text) : text[i] = "300750.SZ"
  /\ \A i \in 1..Len(text) :
       text[i] # "300750.SZ" => TokenTicker(text[i]) = <<>> /\ TokenAlias(text[i]) = <<>>

\* C17: a text whose only company reference is one well-formed domestic
\* code, repeated or not, resolves to exactly one target, whose symbol is the
\* code; no two targets of a result share market and symbol, and no target
\* comes from a fragment of the code.
C17_OneDomesticCode ==
  turn.pc = "resolved" =>
    /\ \A i, j \in 1..Len(turn.compareTargets) :
         MarketSymbolKey(turn.compareTargets[i]) = MarketSymbolKey(turn.compareTargets[j]) => i = j
    /\ OnlyDomesticCode(turn.message) =>
         /\ Len(turn.compareTargets) = 1
         /\ turn.compareTargets[1].Symbol = <<"300750", "SZ">>
         /\ turn.compareTargets[1].Market = "CN"

\* ------------------------------------------------------------------ C18
StrictlyAscending(points) ==
  \A i \in 1..(Len(points) - 1) : points[i].FY < points[i + 1].FY

\* C18: whatever the payload holds, every series a provider function returns
\* has its points in strictly ascending fiscal-year order, each fiscal year
\* once.
C18_SeriesStrictlyAscending ==
  turn.pc = "fetched" =>
    \A metric \in DOMAIN turn.series : StrictlyAscending(turn.series[metric])

\* ------------------------------------------------------------------ C19
HasYear(series, t) == \E i \in 1..Len(series) : series[i].FY = t

ValueAt(series, t) == series[CHOOSE i \in 1..Len(series) : series[i].FY = t].Value

SeriesOrNone(metric) == IF metric \in DOMAIN turn.series THEN turn.series[metric] ELSE <<>>

\* n / d = p / q
SameRatio(n, d, p, q) == d # 0 /\ q # 0 /\ n * q = p * d

\* C19: the YoY series has a point for year t exactly when the metric has
\* points at t-1 and at t and the value at t-1 is not 0; the point is
\* (value[t] - value[t-1]) / value[t-1].  [(2021,100),(2022,120),(2023,90)]
\* gives [(2022,0.20),(2023,-0.25)], and no point spans a missing year.
C19_YoYOfConsecutiveYears ==
  turn.pc = "derived" =>
    /\ \A t \in 2019..(2019 + MaxYears) :
         HasYear(SeriesOrNone("RevenueYoY"), t) <=>
           /\ HasYear(turn.series.Revenue, t - 1)
           /\ HasYear(turn.series.Revenue, t)
           /\ ValueAt(turn.series.Revenue, t - 1) # 0
    /\ \A t \in 2019..(2019 + MaxYears) :
         HasYear(SeriesOrNone("RevenueYoY"), t) /\ HasYear(turn.series.Revenue, t - 1) =>
           SameRatio(ValueAt(SeriesOrNone("RevenueYoY"), t)[1], ValueAt(SeriesOrNone("RevenueYoY"), t)[2],
                     ValueAt(turn.series.Revenue, t) - ValueAt(turn.series.Revenue, t - 1),
                     ValueAt(turn.series.Revenue, t - 1))
    /\ turn.series.Revenue = <<FactPoint(2021, 1000, "USD"), FactPoint(2022, 1200, "USD"),
                               FactPoint(2023, 900, "USD")>> =>
         /\ Len(turn.series.RevenueYoY) = 2
         /\ turn.series.RevenueYoY[1].FY = 2022
         /\ SameRatio(turn.series.RevenueYoY[1].Value[1], turn.series.RevenueYoY[1].Value[2], 20, 100)
         /\ turn.series.RevenueYoY[2].FY = 2023
         /\ SameRatio(turn.series.RevenueYoY[2].Value[1], turn.series.RevenueYoY[2].Value[2], -25, 100)

\* ------------------------------------------------------------------ C20
\* The first of the last n + 1 points, the last point when there are fewer.
WindowStart(series, n) == series[IF Len(series) > n THEN Len(series) - n ELSE Len(series)]

WindowEnd(series) == series[Len(series)]

\* C20: the CAGR over n = 3 years is emitted only when the metric has at
\* least n + 1 points, from the first and the last of the last n + 1 points,
\* as (end / start)^(1 / (yearEnd - yearStart)) - 1, and is omitted when the
\* start value is <= 0 or the span of years is <= 0.
C20_CAGROfTailWindow ==
  turn.pc = "derived" /\ turn.series.Revenue # <<>> =>
    /\ "RevenueCAGR3Y" \in DOMAIN turn.series <=>
         /\ Len(turn.series.Revenue) >= CagrYears + 1
         /\ WindowStart(turn.series.Revenue, CagrYears).Value > 0
         /\ WindowEnd(turn.series.Revenue).FY - WindowStart(turn.series.Revenue, CagrYears).FY > 0
    /\ "RevenueCAGR3Y" \in DOMAIN turn.series =>
         turn.series.RevenueCAGR3Y =
           <<FactPoint(WindowEnd(turn.series.Revenue).FY,
                       <<WindowEnd(turn.series.Revenue).Value,
                         WindowStart(turn.series.Revenue, CagrYears).Value,
                         WindowEnd(turn.series.Revenue).FY - WindowStart(turn.series.Revenue, CagrYears).FY>>,
                       "ratio")>>

\* Five points, the first of them negative: the window is the last four,
\* (2020, 100) to (2023, 133.1), and the rate is 0.10 since 1.1^3 = 1.331.
C20_Witness ==
  /\ turn.pc = "derived"
  /\ Len(turn.series.Revenue) = 5
  /\ turn.series.Revenue[1].Value < 0
  /\ turn.series.Revenue[2] = FactPoint(2020, 1000, "USD")
  /\ "RevenueCAGR3Y" \in DOMAIN turn.series
  /\ turn.series.RevenueCAGR3Y[1].FY = 2023
  /\ turn.series.RevenueCAGR3Y[1].Value[3] = 3
  /\ 11 * 11 * 11 * turn.series.RevenueCAGR3Y[1].Value[2]
       = 10 * 10 * 10 * turn.series.RevenueCAGR3Y[1].Value[1]

\* ------------------------------------------------------------------ C21
\* The ratio series of the answer and the numerator each is taken from; the
\* denominator is Revenue.
RatioKeys == {<<"GrossMargin", "GrossProfit">>, <<"NetMargin", "NetIncome">>,
              <<"RAndDRatio", "RAndD">>, <<"OperatingMargin", "OperatingIncome">>}

RatioDefined(r, num, den) ==
  \A t \in 2020..(2021 + MaxRatioYears) :
    /\ HasYear(r, t) <=> (HasYear(num, t) /\ HasYear(den, t) /\ ValueAt(den, t) # 0)
    /\ HasYear(r, t) => SameRatio(ValueAt(r, t)[1], ValueAt(r, t)[2], ValueAt(num, t), ValueAt(den, t))
    /\ Cardinality({i \in 1..Len(r) : r[i].FY = t}) <= 1

\* C21: a ratio has a point for a fiscal year exactly when numerator and
\* denominator both have a point for the year and the denominator is not 0;
\* the point is numerator / denominator; no year is filled with zero.
C21_RatioOfSharedYears ==
  /\ turn.pc = "financial_facts" =>
       \A k \in RatioKeys :
         RatioDefined(SeriesOrNone(k[1]), Metric(client.raw, k[2]), client.raw.Revenue)
  /\ turn.pc = "company_facts" =>
       RatioDefined(SeriesOrNone("GrossMargin"), client.raw.GrossProfit, client.raw.Revenue)

\* Net income of 2021..2023 against a revenue that is missing in 2021 and 0
\* in 2022: the margin has the point of 2023 alone.
C21_Witness ==
  /\ turn.pc = "financial_facts"
  /\ Len(client.raw.NetIncome) = 3
  /\ Len(client.raw.Revenue) = 2
  /\ client.raw.Revenue[1] = FactPoint(2022, 0, "USD")
  /\ client.raw.Revenue[2].FY = 2023
  /\ Len(turn.series.NetMargin) = 1
  /\ turn.series.NetMargin[1].FY = 2023

\* ------------------------------------------------------------------ C22
DerivedKeys == {"GrossMargin", "RevenueYoY", "RevenueCAGR3Y", "RAndDRatio", "OperatingMargin", "NetMargin"}

\* C22: the derived series are stored under keys of their own, and every raw
\* metric has after the derivation exactly the points it had before.
C22_RawMetricsKept ==
  turn.pc \in {"company_facts", "financial_facts"} =>
    /\ DOMAIN turn.series \ DOMAIN client.raw \subseteq DerivedKeys
    /\ DerivedKeys \cap DOMAIN client.raw = {}
    /\ \A k \in DOMAIN client.raw : k \in DOMAIN turn.series /\ turn.series[k] = client.raw[k]

\* Every kind of derived series was added to raw metrics that hold points.
C22_Witness ==
  /\ turn.pc = "financial_facts"
  /\ Len(client.raw.Revenue) = 3
  /\ Len(client.raw.NetIncome) = 3
  /\ {"GrossMargin", "RevenueYoY", "RAndDRatio", "NetMargin"} \subseteq DOMAIN turn.series
  /\ Len(turn.series.RevenueYoY) = 2
  /\ Len(turn.series.NetMargin) = 3
  /\ turn.series.Revenue = client.raw.Revenue

\* ------------------------------------------------------------------ C23
\* The targets the comparison stage of the step fetched: the first three.
FetchedTargets(targets) == SubSeq(targets, 1, IF Len(targets) > 3 THEN 3 ELSE Len(targets))

Symbols(targets) == [i \in 1..Len(targets) |-> targets[i].Symbol]

\* C23: a comparison fetches at most 3 targets; a target whose chain fails
\* goes to the failure list with its reason and the targets after it are
\* still fetched; the comparison is produced, and LastTargets set from the
\* targets that returned data, exactly when at least 2 did; otherwise the
\* turn has the insufficient-data outcome.
C23_BatchOfThree ==
  [][(turn.pc = "compare" /\ turn'.pc \notin {"compare", "blocked"} /\ Len(turn'.compareTargets) >= 2)
       => /\ Len(turn'.results) + Len(turn'.errList) = Len(FetchedTargets(turn'.compareTargets))
          /\ \A i \in 1..Len(FetchedTargets(turn'.compareTargets)) :
               /\ (\E j \in 1..Len(turn'.results) : turn'.results[j].Target = turn'.compareTargets[i])
                    \/ (\E j \in 1..Len(turn'.errList) :
                          /\ turn'.errList[j].target = turn'.compareTargets[i]
                          /\ turn'.errList[j].reason # "")
               /\ \E k \in (Len(turn.calls) + 1)..Len(turn'.calls) :
                    turn'.calls[k].code = turn'.compareTargets[i].Symbol
          /\ \A k \in (Len(turn.calls) + 1)..Len(turn'.calls) :
               \E i \in 1..Len(FetchedTargets(turn'.compareTargets)) :
                 turn'.calls[k].code \in {turn'.compareTargets[i].Symbol}
                   \cup Range(selectAkshareFallbackCode(turn'.compareTargets[i]))
          /\ Len(turn'.results) >= 2 <=>
               (turn'.table = "compare" /\ turn'.answer.kind \in {"compare_summary", "compare_fallback"})
          /\ Len(turn'.results) >= 2 =>
               Symbols(getLastTargets(lastTargets', turn.sid)) = Symbols(targetsFromResults(turn'.results))
          /\ Len(turn'.results) < 2 =>
               /\ lastTargets' = lastTargets
               /\ \/ turn'.answer.kind = "insufficient_data"
                  \/ \E i \in 1..Len(turn'.notes) : turn'.notes[i] = "insufficient_data"
     ]_vars

\* Three targets, the first of them failed, the two after it fetched and
\* compared.
C23_Witness ==
  /\ Answered
  /\ Len(turn.compareTargets) >= 3
  /\ Len(turn.errList) = 1
  /\ turn.errList[1].target = turn.compareTargets[1]
  /\ Len(turn.results) = 2
  /\ turn.table = "compare"
  /\ Symbols(getLastTargets(lastTargets, turn.sid)) = Symbols(SubSeq(turn.compareTargets, 2, 3))

\* ------------------------------------------------------------------ C24
CallsOf(provider) == {k \in 1..Len(turn.calls) : turn.calls[k].provider = provider}

Names(text, piece) == \E i \in 1..Len(text) : text[i] = piece

\* C24: for an international target the domestic provider is called at most
\* once, only after the international provider failed and only for a mapped
\* code; when both fail the recorded failure names the failure of the one
\* and of the other; for a domestic target the international provider is
\* not called and the domestic one is called once.
C24_CrossMarketFallbackOnce ==
  (turn.pc = "responded" /\ turn.calls # <<>>) =>
    /\ client.overseas =>
         /\ Cardinality(CallsOf("akshare")) <= 1
         /\ \A k \in CallsOf("akshare") :
              k > 1 /\ turn.calls[k - 1].provider = "eodhd" /\ client.mapped
         /\ CallsOf("akshare") # {} =>
              \E text \in FailureTexts :
                Names(text, "EODHD failed") /\ Names(text, "AkShare fallback failed")
    /\ ~client.overseas =>
         /\ CallsOf("eodhd") = {}
         /\ Cardinality(CallsOf("akshare")) = 1

\* The failure texts the data stages build (lines 918-935, 975-990, 1109-1137).
DataFailureTexts ==
  {"insufficient_targets", "insufficient_data", "stock_rank_failed", "board_failed",
   "eodhd_failed", "finance_failed"}

\* The answers a turn can leave the model stage with (lines 1219-1262).
ModelStageAnswers ==
  {"llm", "evidence_fallback", "model_unavailable", "model_not_configured", "placeholder"}

HasFailureNote == \E i \in 1..Len(turn.notes) : turn.notes[i] \in DataFailureTexts

FirstMatch(message) ==
  CASE isStockRankQuestion(message) -> "stock_rank"
    [] isBoardAnalysisQuestion(message) -> "board"
    [] isCompareQuestion(message) \/ hasCompareHint(message) -> "compare"
    [] isFinancialQuestion(message) -> "finance"
    [] OTHER -> "none"

NormalRoutes == {"compare", "finance", "stock_rank", "board", "none"}

ClassifierFailed == ~glmKey \/ client.modelOut = <<>>

HeuristicStands ==
  /\ turn.decision.Route = FirstMatch(turn.message)
  /\ turn.decision.NeedData = (FirstMatch(turn.message) # "none")

HeuristicOverrides ==
  /\ ~client.modelOut[1].NeedData
  /\ FirstMatch(turn.message) # "none"
  /\ isStrongDataIntent(turn.message)

\* C26: in professional mode with no other flag the heuristic decision is the
\* first match among ranking, board, comparison and finance, none without a
\* match; it stands when the model classifier gives no answer; it is used when
\* the model answers needData false, the heuristic answers true and the
\* message has strong data intent; otherwise the decision is the model's
\* answer, normalized.
C26_HeuristicAndModelReconciled ==
  turn.pc = "reconciled" =>
    IF ClassifierFailed THEN HeuristicStands
    ELSE IF HeuristicOverrides THEN HeuristicStands
    ELSE /\ turn.decision.NeedData = client.modelOut[1].NeedData
         /\ turn.decision.Reason = client.modelOut[1].Reason
         /\ turn.decision.Route \in NormalRoutes
         /\ (~client.modelOut[1].NeedData => turn.decision.Route = "none")
         /\ (client.modelOut[1].NeedData /\ client.modelOut[1].Route \in NormalRoutes
               => turn.decision.Route = client.modelOut[1].Route)
         /\ (client.modelOut[1].NeedData /\ client.modelOut[1].Route = " Compare"
               => turn.decision.Route = "compare")
         /\ (client.modelOut[1].NeedData /\ client.modelOut[1].Route \in {"Deep", "news"}
               => turn.decision.Route = "none")

C26_Witness ==
  /\ turn.pc = "reconciled"
  /\ ~ClassifierFailed
  /\ HeuristicOverrides
  /\ turn.decision.Route = "finance"
  /\ turn.decision.Reason = "finance_rule"

\* The promotion pass has run over a decision without data need.
Promoted ==
  /\ turn.pc = "routed"
  /\ ~reconcileDecision(turn.message, glmKey, client.modelOut).NeedData

RawTargets == resolveCompareTargets(turn.message, <<>>)

ImpliesCarry == shouldCarryTargetsV2(turn.message)

\* C27: when professional mode has found no data need the promotion pass
\* picks compare if at least 2 targets resolve from the raw text; else compare
\* if the message implies carry-forward and at least 2 targets are
\* remembered; else finance if an explicit single target is present or
\* exactly 1 target is remembered; else the decision stays none.
C27_PromotionOrder ==
  Promoted =>
    turn.decision.Route =
      (IF Len(RawTargets) >= 2 THEN "compare"
       ELSE IF ImpliesCarry /\ Len(client.last) >= 2 THEN "compare"
       ELSE IF hasExplicitTargets(turn.message) \/ Len(client.last) = 1 THEN "finance"
       ELSE "none")

\* C27, amended: one remembered target promotes to finance only when the
\* message implies carry-forward.
C27_PromotionNeedsCarry ==
  Promoted =>
    /\ turn.decision.Route =
         (IF Len(RawTargets) >= 2 THEN "compare"
          ELSE IF ImpliesCarry /\ Len(client.last) >= 2 THEN "compare"
          ELSE IF hasExplicitTargets(turn.message) THEN "finance"
          ELSE IF ImpliesCarry /\ Len(client.last) = 1 THEN "finance"
          ELSE "none")
    /\ turn.decision.NeedData = (turn.decision.Route # "none")

C27_Witness ==
  /\ Promoted
  /\ Len(client.last) = 1
  /\ ImpliesCarry
  /\ ~hasExplicitTargets(turn.message)
  /\ turn.decision.Route = "finance"
  /\ turn.decision.Reason = "opportunistic_memory_finance"

\* The record of the session before the last write, and whether that write
\* starts the clock of the turn anew.
ResetsStartedAt(prev, stage) == stage = "received" \/ prev.StartedAt = <<>>

\* C28: a progress write resets startedAt to the current time exactly when
\* the stage is received or the session has no earlier startedAt; every other
\* write leaves startedAt unchanged; elapsedMs is now minus startedAt, never
\* negative, and does not decrease over the writes that follow a reset, the
\* done write included.
C28_StartedAtKeptElapsedGrows ==
  [][turn'.pc = "progress" =>
       LET prev == Get(chatProgress, turn'.sid, ZeroTimedProgress)
           next == chatProgress'[turn'.sid]
           now == client'.now
       IN /\ next.ElapsedMs >= 0
          /\ next.UpdatedAt = formatRFC3339(now)
          /\ IF ResetsStartedAt(prev, turn'.log[1])
             THEN /\ next.StartedAt = formatRFC3339(now)
                  /\ next.ElapsedMs = 0
             ELSE /\ next.StartedAt = prev.StartedAt
                  /\ next.ElapsedMs = now - parseRFC3339(prev.StartedAt)
                  /\ next.ElapsedMs >= prev.ElapsedMs]_vars

C28_Witness ==
  /\ turn.pc = "progress"
  /\ turn.log = <<"done">>
  /\ chatProgress[turn.sid].Done
  /\ chatProgress[turn.sid].ElapsedMs > 0
  /\ chatProgress[turn.sid].StartedAt # chatProgress[turn.sid].UpdatedAt

\* The requested metrics are the metric list of the plan as the chart reads it.
Asked(metric) ==
  \E k \in 1..Len(normalizeMetricList(client.metrics)) :
    normalizeMetricList(client.metrics)[k] = metric

\* C29: the chart of a comparison shows one metric, chosen by priority:
\* revenue if it is among the requested metrics, otherwise net income if
\* present, otherwise operating income if present, otherwise the first
\* requested metric.
C29_ChartMetricByPriority ==
  (turn.pc = "charted" /\ turn.chart # <<>>) =>
    turn.chart[1].metric =
      (IF Asked("Revenue") THEN "Revenue"
       ELSE IF Asked("NetIncome") THEN "NetIncome"
       ELSE IF Asked("OperatingIncome") THEN "OperatingIncome"
       ELSE normalizeMetricList(client.metrics)[1])

\* C30: target resolution is deterministic: two runs of the resolver on the
\* same message, the same planner hints and the same directory return the
\* same targets in the same order, so the first target of a single-company
\* finance turn and the targets kept for a comparison are the same in both.
C30_ResolutionDeterministic ==
  turn.pc = "second_run" =>
    /\ turn.newTargets = turn.compareTargets
    /\ turn.carried = turn.financeTarget

====
